---------------------------- MODULE Spec2Model ----------------------------
(***************************************************************************)
(* A model of the job viewer pu_qstat.py of pbs_utils: the JSON repair     *)
(* line pass (repair_qstat_json), the adapter query qstat_jobs, the        *)
(* routing-queue expansion (build_routing_map, expand_routed_queues), the  *)
(* score formula (execute_job_sort_formula) and the rows and filters of    *)
(* print_jobs.                                                             *)
(*                                                                         *)
(* Text is a sequence of tokens.  A token stands for a run of characters   *)
(* that the regular expressions and the JSON grammar treat as one unit:    *)
(* a punctuation character, a run of blanks, the line break NL, a quoted   *)
(* string (written with single quotes here), or a bare number.  Quoted     *)
(* strings are opaque: they hold none of the characters { } [ ] : ,        *)
(* themselves.                                                             *)
(***************************************************************************)
EXTENDS Integers, Sequences, FiniteSets, TLC

VARIABLES
    \* repair_qstat_json
    json_text, lines, i, state, job_brace_level, repaired_lines, fix_count,
    inserted, appended, repaired_text, pc,
    \* qstat_jobs
    qj_pc, completed_process, output, repaired_output, result, raised, repair_calls,
    \* expand_routed_queues
    ex_pc, root_queue, routing_map, root, lower_map, visited, stack, expanded,
    ex_result,
    \* execute_job_sort_formula
    sc_pc, server_data, job_data, formula_str, locals, sc_result,
    \* print_jobs
    pj_pc, jobs, pj_server_data, queues_data, state_filter, queue_filter, user_filter,
    project_filter, jobid_filter, limit, expanded_queue_set, jobid_set, job_list,
    job_index, verdicts, emitted, sort_by, reverse_order, extra_columns, now, pj_raised,
    \* convert_value_for_sorting
    sk_pc, value, reverse, current_year, value_type, sort_key,
    \* get_full_state_name, get_state_code
    sm_pc, sm_module, state_code, full_state_name, sm_code,
    \* print_nodes_in_state
    nd_pc, pbs_nodes_data, summarize, nodes_in_state, total_nodes, table_data

repairVars == <<json_text, lines, i, state, job_brace_level, repaired_lines,
                fix_count, inserted, appended, repaired_text, pc>>

qstatVars == <<qj_pc, completed_process, output, repaired_output, result, raised, repair_calls>>

expandVars == <<ex_pc, root_queue, routing_map, root, lower_map, visited, stack,
                expanded, ex_result>>

scoreVars == <<sc_pc, server_data, job_data, formula_str, locals, sc_result>>

printVars == <<pj_pc, jobs, pj_server_data, queues_data, state_filter, queue_filter,
               user_filter, project_filter, jobid_filter, limit, expanded_queue_set,
               jobid_set, job_list, job_index, verdicts, emitted, sort_by,
               reverse_order, extra_columns, now, pj_raised>>

sortKeyVars == <<sk_pc, value, reverse, current_year, value_type, sort_key>>

stateMapVars == <<sm_pc, sm_module, state_code, full_state_name, sm_code>>

nodesVars == <<nd_pc, pbs_nodes_data, summarize, nodes_in_state, total_nodes, table_data>>

vars == <<repairVars, qstatVars, expandVars, scoreVars, printVars, sortKeyVars, stateMapVars, nodesVars>>

\* the variables of the other functions
exceptRepair == <<qstatVars, expandVars, scoreVars, printVars, sortKeyVars, stateMapVars, nodesVars>>
exceptQstat == <<repairVars, expandVars, scoreVars, printVars, sortKeyVars, stateMapVars, nodesVars>>
exceptExpand == <<repairVars, qstatVars, scoreVars, printVars, sortKeyVars, stateMapVars, nodesVars>>
exceptScore == <<repairVars, qstatVars, expandVars, printVars, sortKeyVars, stateMapVars, nodesVars>>
exceptPrint == <<repairVars, qstatVars, expandVars, scoreVars, sortKeyVars, stateMapVars, nodesVars>>
exceptSortKey == <<repairVars, qstatVars, expandVars, scoreVars, printVars, stateMapVars, nodesVars>>
exceptStateMap == <<repairVars, qstatVars, expandVars, scoreVars, printVars, sortKeyVars, nodesVars>>
exceptNodes == <<repairVars, qstatVars, expandVars, scoreVars, printVars, sortKeyVars, stateMapVars>>

-----------------------------------------------------------------------------
(* Tokens *)

NL == "NL"
WS == {" "}

\* quoted strings that start with digits and a dot: the job ids
JobKeyTokens == {"'111.x'", "'112.x'", "'113.x'", "'114.x'"}
StringTokens == JobKeyTokens \cup
    {"'Jobs'", "'timestamp'", "'job_state'", "'Resource_List'", "'nodect'",
     "'ctime'", "'hash'", "'R'", "'Q'", "'H'", "'W'",
     "'1700000000'", "'c0ffee32'"}
\* bare numbers of fewer than 10 digits
ShortNumTokens == {"1"}
\* bare numbers of 10 digits or more
LongNumTokens == {"1700000000"}
\* bare runs of 32 or more hexadecimal digits that are not all decimal
LongHexTokens == {"c0ffee32"}

\* the text of a bare token wrapped in quotes (the r':"\1"' of the two re.sub)
Quoted(tok) ==
    CASE tok = "1700000000" -> "'1700000000'"
      [] tok = "c0ffee32" -> "'c0ffee32'"
      [] OTHER -> tok

RECURSIVE LStrip(_)
LStrip(s) == IF s # <<>> /\ Head(s) \in WS THEN LStrip(Tail(s)) ELSE s

RECURSIVE RStrip(_)
RStrip(s) ==
    IF s # <<>> /\ s[Len(s)] \in WS THEN RStrip(SubSeq(s, 1, Len(s) - 1)) ELSE s

\* str.strip()
Strip(s) == LStrip(RStrip(s))

\* the positions of NL in a text
NLPositions(t) == {k \in 1..Len(t) : t[k] = NL}

\* str.split('\n')
RECURSIVE Split(_)
Split(t) ==
    IF NLPositions(t) = {} THEN <<t>>
    ELSE LET k == CHOOSE p \in NLPositions(t) : \A q \in NLPositions(t) : p <= q
         IN <<SubSeq(t, 1, k - 1)>> \o Split(SubSeq(t, k + 1, Len(t)))

\* '\n'.join(ls), for a list with at least one element
RECURSIVE Join(_)
Join(ls) ==
    IF Len(ls) = 0 THEN <<>>
    ELSE IF Len(ls) = 1 THEN ls[1]
    ELSE ls[1] \o <<NL>> \o Join(Tail(ls))

\* str.count(tok)
Count(line, tok) == Cardinality({k \in 1..Len(line) : line[k] = tok})

RECURSIVE SkipWs(_, _)
SkipWs(s, p) == IF p <= Len(s) /\ s[p] \in WS THEN SkipWs(s, p + 1) ELSE p

\* re.match(r'^"Jobs"\s*:\s*{', stripped_line)
MatchJobsStart(s) ==
    /\ Len(s) >= 1 /\ s[1] = "'Jobs'"
    /\ LET p == SkipWs(s, 2)
       IN /\ p <= Len(s) /\ s[p] = ":"
          /\ LET q == SkipWs(s, p + 1) IN q <= Len(s) /\ s[q] = "{"

\* re.match(r'^"[0-9]+\.', stripped_line)
MatchJobEntry(s) == Len(s) >= 1 /\ s[1] \in JobKeyTokens

\* re.search(r',\s*$', line)
EndsWithComma(line) == LET r == RStrip(line) IN r # <<>> /\ r[Len(r)] = ","

-----------------------------------------------------------------------------
(* repair_qstat_json: the line pass *)

OUTSIDE_JOBS == 0
INSIDE_JOBS == 1
INSIDE_JOB == 2

\* the look-ahead of the comma check reads lines i+1 .. i+4: range(i + 1, min(i + 5, len(lines)))
LookAheadEnd == 5

\* the line the pass synthesizes: '        },'
ClosingLine == <<" ", "}", ",">>

\* The look-ahead loop (0-based k): the first line among k+1 .. min(k+5, len)-1 that
\* is a job entry or a lone '}' decides; next_job_found iff it is a job entry.
Min(a, b) == IF a <= b THEN a ELSE b

NextJobFound(ls, k) ==
    LET hi == Min(k + LookAheadEnd, Len(ls)) - 1
        stop == {j \in (k + 1)..hi :
                    \/ MatchJobEntry(Strip(ls[j + 1]))
                    \/ Strip(ls[j + 1]) = <<"}">>}
    IN /\ stop # {}
       /\ LET j == CHOOSE x \in stop : \A y \in stop : x <= y
          IN MatchJobEntry(Strip(ls[j + 1]))

\* the guard of the inner test of the job-entry branch: the previous job was left open
UnclosedBefore(st) == st.state = INSIDE_JOB /\ st.job_brace_level > 0

\* the guard of the job-entry branch
AtJobEntry(st, stripped) == st.state = INSIDE_JOBS /\ MatchJobEntry(stripped)

\* line 161, a mutation: the line is stripped on both sides
WithComma_Strip(line) == Append(Strip(line), ",")

\* line 161: line.rstrip() + ','
WithComma(line) == Append(RStrip(line), ",")

\* One iteration of the for loop over lines, for the 0-based index k.
\* st holds the loop's variables; inserted and appended count the synthesized
\* lines and the appended commas (fix_count is their sum in the code).
LineStep(ls, k, st) ==
    LET line == ls[k + 1]
        stripped == Strip(line)
        emit(l) == Append(st.repaired_lines, l)
    IN
    IF MatchJobsStart(stripped)
    THEN [st EXCEPT !.state = INSIDE_JOBS, !.job_brace_level = 0,
                    !.repaired_lines = emit(line)]
    ELSE IF st.state = INSIDE_JOBS /\ stripped = <<"}">>
    THEN [st EXCEPT !.state = OUTSIDE_JOBS, !.repaired_lines = emit(line)]
    ELSE IF AtJobEntry(st, stripped)
    THEN IF UnclosedBefore(st)
         THEN [st EXCEPT !.state = INSIDE_JOB, !.job_brace_level = 0,
                         !.repaired_lines = Append(emit(ClosingLine), line),
                         !.fix_count = @ + 1, !.inserted = @ + 1]
         ELSE [st EXCEPT !.state = INSIDE_JOB, !.job_brace_level = 0,
                         !.repaired_lines = emit(line)]
    ELSE IF st.state = INSIDE_JOB
    THEN LET lvl == st.job_brace_level + Count(line, "{") - Count(line, "}")
         IN IF lvl = 0
            THEN IF NextJobFound(ls, k) /\ ~EndsWithComma(line)
                 THEN [st EXCEPT !.state = INSIDE_JOBS, !.job_brace_level = lvl,
                                 !.repaired_lines = emit(WithComma(line)),
                                 !.fix_count = @ + 1, !.appended = @ + 1]
                 ELSE [st EXCEPT !.state = INSIDE_JOBS, !.job_brace_level = lvl,
                                 !.repaired_lines = emit(line)]
            ELSE [st EXCEPT !.job_brace_level = lvl, !.repaired_lines = emit(line)]
    ELSE [st EXCEPT !.repaired_lines = emit(line)]

\* the loop's variables before the first line
LoopStart ==
    [state |-> OUTSIDE_JOBS, job_brace_level |-> 0, repaired_lines |-> <<>>,
     fix_count |-> 0, inserted |-> 0, appended |-> 0]

\* the whole for loop
RECURSIVE LinePassFrom(_, _, _)
LinePassFrom(ls, k, st) ==
    IF k >= Len(ls) THEN st ELSE LinePassFrom(ls, k + 1, LineStep(ls, k, st))

LinePass(ls) == LinePassFrom(ls, 0, LoopStart)

-----------------------------------------------------------------------------
(* repair_qstat_json: the textual fixes after the line pass *)

\* re.sub(r':([0-9a-f]{32,})', r':"\1"', text)
QuoteLongHex(t) ==
    [p \in 1..Len(t) |->
        IF p > 1 /\ t[p - 1] = ":" /\ t[p] \in LongHexTokens THEN Quoted(t[p]) ELSE t[p]]

\* re.sub(r':([0-9]{10,})', r':"\1"', text)
QuoteLongNum(t) ==
    [p \in 1..Len(t) |->
        IF p > 1 /\ t[p - 1] = ":" /\ t[p] \in LongNumTokens THEN Quoted(t[p]) ELSE t[p]]

RECURSIVE SkipSpace(_, _)
SkipSpace(t, p) ==
    IF p <= Len(t) /\ (t[p] \in WS \/ t[p] = NL) THEN SkipSpace(t, p + 1) ELSE p

\* a comma that the pattern r',(\s*[}\]])' matches
TrailingComma(t, p) ==
    /\ t[p] = ","
    /\ LET q == SkipSpace(t, p + 1) IN q <= Len(t) /\ t[q] \in {"}", "]"}

RECURSIVE DropTrailingCommasFrom(_, _)
DropTrailingCommasFrom(t, p) ==
    IF p > Len(t) THEN <<>>
    ELSE IF TrailingComma(t, p) THEN DropTrailingCommasFrom(t, p + 1)
    ELSE <<t[p]>> \o DropTrailingCommasFrom(t, p + 1)

\* re.sub(r',(\s*[}\]])', r'\1', text)
DropTrailingCommas(t) == DropTrailingCommasFrom(t, 1)

\* lines 174-184: join, the three substitutions
TextFixes(rl) == DropTrailingCommas(QuoteLongNum(QuoteLongHex(Join(rl))))

\* repair_qstat_json as a function of its argument
RepairQstatJson(text) == TextFixes(LinePass(Split(text)).repaired_lines)

-----------------------------------------------------------------------------
(* json.loads, on token text.  A value is a record [t, v]: a string or a   *)
(* number with its token, an object with a function from its keys (a later *)
(* duplicate key replaces the earlier), an array with a sequence.          *)

NumTokens == ShortNumTokens \cup LongNumTokens

\* the tokens of a text that are not white space
JsonTokens(text) == SelectSeq(text, LAMBDA tok : tok \notin WS /\ tok # NL)

ParseFail == [ok |-> FALSE, pos |-> 0, val |-> [t |-> "none", v |-> <<>>]]

ParseOk(p, t, v) == [ok |-> TRUE, pos |-> p, val |-> [t |-> t, v |-> v]]

\* dict[key] = val
Put(m, key, val) ==
    [k \in DOMAIN m \cup {key} |-> IF k = key THEN val ELSE m[k]]

RECURSIVE ParseValue(_, _)
RECURSIVE ParseMembers(_, _, _)
RECURSIVE ParseElements(_, _, _)

ParseValue(t, p) ==
    IF p > Len(t) THEN ParseFail
    ELSE IF t[p] \in StringTokens THEN ParseOk(p + 1, "str", t[p])
    ELSE IF t[p] \in NumTokens THEN ParseOk(p + 1, "num", t[p])
    ELSE IF t[p] = "{"
    THEN IF p + 1 <= Len(t) /\ t[p + 1] = "}" THEN ParseOk(p + 2, "obj", <<>>)
         ELSE ParseMembers(t, p + 1, <<>>)
    ELSE IF t[p] = "["
    THEN IF p + 1 <= Len(t) /\ t[p + 1] = "]" THEN ParseOk(p + 2, "arr", <<>>)
         ELSE ParseElements(t, p + 1, <<>>)
    ELSE ParseFail

\* the members of an object from the key at p on; acc holds those before
ParseMembers(t, p, acc) ==
    IF p + 1 > Len(t) \/ t[p] \notin StringTokens \/ t[p + 1] # ":" THEN ParseFail
    ELSE LET r == ParseValue(t, p + 2)
         IN IF ~r.ok \/ r.pos > Len(t) THEN ParseFail
            ELSE IF t[r.pos] = "," THEN ParseMembers(t, r.pos + 1, Put(acc, t[p], r.val))
            ELSE IF t[r.pos] = "}" THEN ParseOk(r.pos + 1, "obj", Put(acc, t[p], r.val))
            ELSE ParseFail

\* the elements of an array from the value at p on
ParseElements(t, p, acc) ==
    LET r == ParseValue(t, p)
    IN IF ~r.ok \/ r.pos > Len(t) THEN ParseFail
       ELSE IF t[r.pos] = "," THEN ParseElements(t, r.pos + 1, Append(acc, r.val))
       ELSE IF t[r.pos] = "]" THEN ParseOk(r.pos + 1, "arr", Append(acc, r.val))
       ELSE ParseFail

\* json.loads(text): ok is FALSE where the code raises json.JSONDecodeError
JsonLoads(text) ==
    LET t == JsonTokens(text)
        r == ParseValue(t, 1)
    IN IF r.ok /\ r.pos = Len(t) + 1 THEN [ok |-> TRUE, val |-> r.val]
       ELSE [ok |-> FALSE, val |-> ParseFail.val]

\* parsed.get('Jobs', {}), as the function from job ids to job objects
JobsOf(val) ==
    IF val.t = "obj" /\ "'Jobs'" \in DOMAIN val.v /\ val.v["'Jobs'"].t = "obj"
    THEN val.v["'Jobs'"].v
    ELSE <<>>

\* job.get('job_state'), "" when absent
JobStateOf(job) ==
    IF job.t = "obj" /\ "'job_state'" \in DOMAIN job.v /\ job.v["'job_state'"].t = "str"
    THEN job.v["'job_state'"].v
    ELSE ""

-----------------------------------------------------------------------------
(* The texts given to repair_qstat_json and produced by the qstat command: *)
(* a "Jobs" container of up to MaxJobs jobs, each job a start line, a body *)
(* and a closing that is '},', '}' or missing.                             *)

MaxJobs == 2

JobIds == <<"'111.x'", "'112.x'", "'113.x'", "'114.x'">>
JobStates == <<"'R'", "'Q'", "'H'", "'W'">>

StateLine(s) == <<" ", "'job_state'", ":", s>>

Bodies(s) ==
    { <<StateLine(s)>>,
      <<StateLine(s) \o <<" ">>>>,
      <<StateLine(s) \o <<",">>, <<" ", "'ctime'", ":", "1700000000">>>>,
      <<StateLine(s) \o <<",">>, <<" ", "'ctime'", ":", " ", "1700000000">>>>,
      <<StateLine(s) \o <<",">>, <<" ", "'hash'", ":", "c0ffee32">>>>,
      <<StateLine(s) \o <<",">>, <<" ", "'Resource_List'", ":", "{">>,
        <<" ", "'nodect'", ":", "1">>, <<" ", "}">>>>,
      <<<<" ", "'Resource_List'", ":", "{">>, <<" ", "'nodect'", ":", "1">>,
        <<" ", "}", ",">>, StateLine(s)>>,
      <<<<" ", "'Resource_List'", ":", "{">>, <<" ", "'nodect'", ":", "1">>>> }

Closings == { <<<<" ", "}", ",">>>>, <<<<" ", "}">>>>, <<>> }

Headers ==
    { << <<"{">>, <<" ", "'Jobs'", ":", "{">> >>,
      << <<"{">>, <<" ", "'timestamp'", ":", "1700000000", ",">>,
         <<" ", "'Jobs'", ":", "{">> >> }

Footer == << <<" ", "}">>, <<"}">> >>

JobLines(n, body, closing) == << <<" ", JobIds[n], ":", "{">> >> \o body \o closing

\* the lines of every sequence of n jobs
RECURSIVE JobSeqs(_)
JobSeqs(n) ==
    IF n = 0 THEN { <<>> }
    ELSE { prefix \o JobLines(n, body, closing) :
             prefix \in JobSeqs(n - 1), body \in Bodies(JobStates[n]),
             closing \in Closings }

QstatTexts ==
    { Join(h \o js \o Footer) :
        h \in Headers, js \in UNION { JobSeqs(n) : n \in 1..MaxJobs } }

-----------------------------------------------------------------------------
(* repair_qstat_json, one line per step *)

LoopVars ==
    [state |-> state, job_brace_level |-> job_brace_level,
     repaired_lines |-> repaired_lines, fix_count |-> fix_count,
     inserted |-> inserted, appended |-> appended]

RepairInit ==
    /\ json_text \in QstatTexts
    /\ lines = <<>>
    /\ i = 0
    /\ state = OUTSIDE_JOBS
    /\ job_brace_level = 0
    /\ repaired_lines = <<>>
    /\ fix_count = 0
    /\ inserted = 0
    /\ appended = 0
    /\ repaired_text = <<>>
    /\ pc = "start"

\* lines 103-113
RepairSplit ==
    /\ pc = "start"
    /\ lines' = Split(json_text)
    /\ pc' = "loop"
    /\ UNCHANGED <<json_text, i, state, job_brace_level, repaired_lines, fix_count,
                   inserted, appended, repaired_text>>

\* lines 115-169: one iteration of the loop
RepairLine ==
    /\ pc = "loop"
    /\ i < Len(lines)
    /\ LET st == LineStep(lines, i, LoopVars)
       IN /\ state' = st.state
          /\ job_brace_level' = st.job_brace_level
          /\ repaired_lines' = st.repaired_lines
          /\ fix_count' = st.fix_count
          /\ inserted' = st.inserted
          /\ appended' = st.appended
    /\ i' = i + 1
    /\ UNCHANGED <<json_text, lines, repaired_text, pc>>

\* lines 171-184
RepairFinish ==
    /\ pc = "loop"
    /\ i = Len(lines)
    /\ repaired_text' = TextFixes(repaired_lines)
    /\ pc' = "done"
    /\ UNCHANGED <<json_text, lines, i, state, job_brace_level, repaired_lines,
                   fix_count, inserted, appended>>

\* repair_qstat_json not called
RepairIdle ==
    /\ json_text = <<>>
    /\ lines = <<>>
    /\ i = 0
    /\ state = OUTSIDE_JOBS
    /\ job_brace_level = 0
    /\ repaired_lines = <<>>
    /\ fix_count = 0
    /\ inserted = 0
    /\ appended = 0
    /\ repaired_text = <<>>
    /\ pc = "idle"

-----------------------------------------------------------------------------
(* qstat_jobs *)

NoValue == [t |-> "none", v |-> <<>>]

JsonStr(tok) == [t |-> "str", v |-> tok]
JsonObj(m) == [t |-> "obj", v |-> m]

\* {"Jobs": {}, "error": msg}
EmptyJobs(msg) ==
    JsonObj(Put(Put(<<>>, "'Jobs'", JsonObj(<<>>)), "'error'", JsonStr(msg)))

\* what the qstat command may print: a job container, or nothing
QstatOutputs == QstatTexts \cup {<<>>}

QstatIdle ==
    /\ qj_pc = "idle"
    /\ completed_process = "none"
    /\ output = <<>>
    /\ repaired_output = <<>>
    /\ result = NoValue
    /\ raised = "none"
    /\ repair_calls = 0

QstatInit ==
    /\ qj_pc = "run"
    /\ completed_process = "none"
    /\ output = <<>>
    /\ repaired_output = <<>>
    /\ result = NoValue
    /\ raised = "none"
    /\ repair_calls = 0

\* line 231: sp.run raises TimeoutExpired, caught at line 277
QJ_Timeout ==
    /\ qj_pc = "run"
    /\ result' = EmptyJobs("Command timeout")
    /\ qj_pc' = "done"
    /\ UNCHANGED <<completed_process, output, repaired_output, raised, repair_calls>>

\* lines 232-233: a non-zero return code raises Exception, which no handler of
\* qstat_jobs catches
QJ_Failed ==
    /\ qj_pc = "run"
    /\ completed_process' = "returncode 1"
    /\ raised' = "Exception"
    /\ qj_pc' = "done"
    /\ UNCHANGED <<output, repaired_output, result, repair_calls>>

\* lines 235-236: the command succeeded and printed text
QJ_Output ==
    /\ qj_pc = "run"
    /\ completed_process' = "returncode 0"
    /\ \E text \in QstatOutputs : output' = text
    /\ qj_pc' = "parse"
    /\ UNCHANGED <<repaired_output, result, raised, repair_calls>>

\* the except clause of the first json.loads (line 241): the name caught
FirstParseHandler == "JSONDecodeError"

\* a second handler that catches another exception
SecondParseHandler_KeyError == "KeyError"

\* the except clause of the second json.loads (line 250)
SecondParseHandler == "JSONDecodeError"

\* lines 239-243: the first json.loads
QJ_Parse ==
    /\ qj_pc = "parse"
    /\ LET r == JsonLoads(output)
       IN IF r.ok
          THEN /\ result' = r.val
               /\ qj_pc' = "done"
               /\ UNCHANGED raised
          ELSE IF FirstParseHandler = "JSONDecodeError"
          THEN /\ qj_pc' = "repair"
               /\ UNCHANGED <<result, raised>>
          ELSE /\ raised' = "JSONDecodeError"
               /\ qj_pc' = "done"
               /\ UNCHANGED result
    /\ UNCHANGED <<completed_process, output, repaired_output, repair_calls>>

\* line 246
QJ_Repair ==
    /\ qj_pc = "repair"
    /\ repaired_output' = RepairQstatJson(output)
    /\ repair_calls' = repair_calls + 1
    /\ qj_pc' = "reparse"
    /\ UNCHANGED <<completed_process, output, result, raised>>

\* lines 248-275: the second json.loads and the fallback
QJ_Reparse ==
    /\ qj_pc = "reparse"
    /\ LET r == JsonLoads(repaired_output)
       IN IF r.ok
          THEN /\ result' = r.val
               /\ UNCHANGED raised
          ELSE IF SecondParseHandler = "JSONDecodeError"
          THEN /\ result' = EmptyJobs("JSON parsing failed even after repair")
               /\ UNCHANGED raised
          ELSE /\ raised' = "JSONDecodeError"
               /\ UNCHANGED result
    /\ qj_pc' = "done"
    /\ UNCHANGED <<completed_process, output, repaired_output, repair_calls>>


-----------------------------------------------------------------------------
(* Queue names.  A name is a sequence of name tokens, each a run of its    *)
(* characters: "DEBUG" is "debug" in upper case, "@srv" a server           *)
(* qualifier; "," and " " occur in a route_destinations string.            *)

NameTokens == {"debug", "DEBUG", "-scaling", "prod", "@srv"}

\* the tokens with letters in upper case, and their lower case
LowerToken(tok) ==
    CASE tok = "DEBUG" -> "debug"
      [] tok = "ALI" -> "ali"
      [] tok = "Unknown" -> "unknown"
      [] tok = "A" -> "a"
      [] tok = "R" -> "r"
      [] tok = "Q" -> "q"
      [] tok = "F" -> "f"
      [] tok = "projA" -> "proja"
      [] tok = "projB" -> "projb"
      [] tok = "Thu" -> "thu"
      [] tok = "Fri" -> "fri"
      [] tok = "Sat" -> "sat"
      [] tok = "Feb" -> "feb"
      [] tok = "Nov" -> "nov"
      [] tok = "UTC" -> "utc"
      [] tok = "Queued" -> "queued"
      [] tok = "Running" -> "running"
      [] tok = "Held" -> "held"
      [] tok = "Waiting" -> "waiting"
      [] tok = "Transit" -> "transit"
      [] tok = "Exiting" -> "exiting"
      [] tok = "Begun" -> "begun"
      [] tok = "Suspended" -> "suspended"
      [] tok = "Completed" -> "completed"
      [] tok = "Finished" -> "finished"
      [] OTHER -> tok

\* str.lower()
Lower(name) == [k \in 1..Len(name) |-> LowerToken(name[k])]

\* the positions of sep in a sequence
Positions(s, sep) == {k \in 1..Len(s) : s[k] = sep}

\* str.split('@')[0]
BeforeAt(name) ==
    IF Positions(name, "@srv") = {} THEN name
    ELSE LET k == CHOOSE x \in Positions(name, "@srv") :
                      \A y \in Positions(name, "@srv") : x <= y
         IN SubSeq(name, 1, k - 1)

\* str.split(',')
RECURSIVE SplitComma(_)
SplitComma(s) ==
    IF Positions(s, ",") = {} THEN <<s>>
    ELSE LET k == CHOOSE x \in Positions(s, ",") : \A y \in Positions(s, ",") : x <= y
         IN <<SubSeq(s, 1, k - 1)>> \o SplitComma(SubSeq(s, k + 1, Len(s)))

\* needle in hay, for strings
Contains(hay, needle) ==
    \E k \in 0..(Len(hay) - Len(needle)) : SubSeq(hay, k + 1, k + Len(needle)) = needle

-----------------------------------------------------------------------------
(* Python dicts that the code iterates: a sequence of <<key, value>> pairs *)
(* with distinct keys, in insertion order.                                 *)

DictKeys(d) == {d[k][1] : k \in 1..Len(d)}

\* d[key], for a key of d
DictGet(d, key) == LET k == CHOOSE x \in 1..Len(d) : d[x][1] = key IN d[k][2]

\* d[key] = val: a present key keeps its place
DictPut(d, key, val) ==
    IF key \in DictKeys(d)
    THEN [k \in 1..Len(d) |-> IF d[k][1] = key THEN <<key, val>> ELSE d[k]]
    ELSE Append(d, <<key, val>>)

-----------------------------------------------------------------------------
(* build_routing_map *)

\* [d.strip().split('@')[0] for d in dests if d.strip()]
RECURSIVE DestList(_)
DestList(ds) ==
    IF ds = <<>> THEN <<>>
    ELSE IF Strip(Head(ds)) = <<>> THEN DestList(Tail(ds))
    ELSE <<BeforeAt(Strip(Head(ds)))>> \o DestList(Tail(ds))

\* lines 316-322: route_destinations is a comma-separated string, a list, or absent
Destinations(dests) ==
    IF dests.kind = "str" THEN DestList(SplitComma(dests.v))
    ELSE IF dests.kind = "list" THEN DestList(dests.v)
    ELSE <<>>

\* lines 312-314
IsRoute(qtype) == qtype \in {"Route", "route"}

\* lines 309-323, over the entries of queues_data['Queue'] from the k-th on
RECURSIVE BuildFrom(_, _, _)
BuildFrom(queues, k, acc) ==
    IF k > Len(queues) THEN acc
    ELSE LET qname == queues[k][1]
             qinfo == queues[k][2]
         IN IF IsRoute(qinfo.queue_type)
            THEN BuildFrom(queues, k + 1,
                           DictPut(acc, BeforeAt(qname), Destinations(qinfo.route_destinations)))
            ELSE BuildFrom(queues, k + 1, acc)

BuildRoutingMap(queues) == BuildFrom(queues, 1, <<>>)

-----------------------------------------------------------------------------
(* expand_routed_queues *)

LowerAll(ds) == [k \in 1..Len(ds) |-> Lower(ds[k])]

\* line 334: {k.lower(): [d.lower() for d in v] for k, v in routing_map.items()}
RECURSIVE LowerMapFrom(_, _, _)
LowerMapFrom(rm, k, acc) ==
    IF k > Len(rm) THEN acc
    ELSE LowerMapFrom(rm, k + 1, DictPut(acc, Lower(rm[k][1]), LowerAll(rm[k][2])))

LowerMap(rm) == LowerMapFrom(rm, 1, <<>>)

\* line 330
NormalRoot(rq) == Lower(BeforeAt(rq))

\* lower_map.get(q, [])
Successors(lm, q) == IF q \in DictKeys(lm) THEN DictGet(lm, q) ELSE <<>>

\* a push loop that stops after the first destination it pushes
PushUnvisited_FirstOnly(stk, ds, vis) ==
    LET fresh == SelectSeq(ds, LAMBDA d : d \notin vis)
    IN IF fresh = <<>> THEN stk ELSE Append(stk, Head(fresh))

\* lines 342-344: push the destinations not yet visited, in order
RECURSIVE PushUnvisited(_, _, _)
PushUnvisited(stk, ds, vis) ==
    IF ds = <<>> THEN stk
    ELSE IF Head(ds) \notin vis THEN PushUnvisited(Append(stk, Head(ds)), Tail(ds), vis)
    ELSE PushUnvisited(stk, Tail(ds), vis)

\* a loop without the test of line 339
AlreadyVisited_Never(q, vis) == FALSE

\* line 339: the test that skips a queue already visited
AlreadyVisited(q, vis) == q \in vis

\* lines 338-344: one iteration of the while loop; expanded lists the queues
\* added to visited, in order
DfsStep(lm, st) ==
    LET q == st.stack[Len(st.stack)]
        rest == SubSeq(st.stack, 1, Len(st.stack) - 1)
    IN IF AlreadyVisited(q, st.visited)
       THEN [st EXCEPT !.stack = rest]
       ELSE [visited |-> st.visited \cup {q},
             stack |-> PushUnvisited(rest, Successors(lm, q), st.visited \cup {q}),
             expanded |-> Append(st.expanded, q)]

RECURSIVE DfsRun(_, _)
DfsRun(lm, st) == IF st.stack = <<>> THEN st ELSE DfsRun(lm, DfsStep(lm, st))

\* expand_routed_queues as a function of its arguments
ExpandRoutedQueues(rq, rm) ==
    IF NormalRoot(rq) = <<>> THEN {}
    ELSE DfsRun(LowerMap(rm),
                [visited |-> {}, stack |-> <<NormalRoot(rq)>>, expanded |-> <<>>]).visited


-----------------------------------------------------------------------------
(* The queue data of the server: up to MaxQueues queues *)

MaxQueues == 2

QDebug == <<"debug">>
QDebugUpper == <<"DEBUG">>
QScaling == <<"debug", "-scaling">>
QProd == <<"prod">>

QueueNames == {QDebug, QDebugUpper, QScaling, QProd}

\* the values of route_destinations
DestValues ==
    { [kind |-> "none", v |-> <<>>],
      [kind |-> "list", v |-> <<QScaling>>],
      [kind |-> "list", v |-> <<QDebug>>],
      [kind |-> "list", v |-> <<QProd, QScaling>>],
      [kind |-> "list", v |-> <<QScaling \o <<"@srv">>, QProd>>],
      [kind |-> "list", v |-> <<QDebugUpper>>],
      [kind |-> "str", v |-> QScaling \o <<",", " ">> \o QProd] }

QueueInfos ==
    { [queue_type |-> "Route", route_destinations |-> d] : d \in DestValues }
    \cup { [queue_type |-> "Execution", route_destinations |-> [kind |-> "none", v |-> <<>>]] }

\* queues_data['Queue'] with n entries
RECURSIVE QueueDicts(_)
QueueDicts(n) ==
    IF n = 0 THEN { <<>> }
    ELSE { Append(d, <<name, info>>) :
             d \in QueueDicts(n - 1), name \in QueueNames, info \in QueueInfos }

\* the dicts the qstat -Q output can hold: the queue names are distinct keys
QueuesData ==
    { d \in UNION { QueueDicts(n) : n \in 0..MaxQueues } :
        \A a, b \in 1..Len(d) : a # b => d[a][1] # d[b][1] }

\* the names a caller passes: plain, qualified, upper case, a bare qualifier, empty
RootNames == { QDebug, QDebugUpper \o <<"@srv">>, QScaling, QProd, <<"@srv">>, <<>> }

-----------------------------------------------------------------------------
(* expand_routed_queues, one loop iteration per step *)

ExpandIdle ==
    /\ ex_pc = "idle"
    /\ root_queue = <<>>
    /\ routing_map = <<>>
    /\ root = <<>>
    /\ lower_map = <<>>
    /\ visited = {}
    /\ stack = <<>>
    /\ expanded = <<>>
    /\ ex_result = {}

ExpandInit ==
    /\ ex_pc = "start"
    /\ root_queue \in RootNames
    /\ \E qd \in QueuesData : routing_map = BuildRoutingMap(qd)
    /\ root = <<>>
    /\ lower_map = <<>>
    /\ visited = {}
    /\ stack = <<>>
    /\ expanded = <<>>
    /\ ex_result = {}

\* lines 330-336
EX_Start ==
    /\ ex_pc = "start"
    /\ root' = NormalRoot(root_queue)
    /\ IF NormalRoot(root_queue) = <<>>
       THEN /\ ex_pc' = "done"
            /\ ex_result' = {}
            /\ UNCHANGED <<lower_map, stack>>
       ELSE /\ lower_map' = LowerMap(routing_map)
            /\ stack' = <<NormalRoot(root_queue)>>
            /\ ex_pc' = "loop"
            /\ UNCHANGED ex_result
    /\ UNCHANGED <<root_queue, routing_map, visited, expanded>>

\* lines 337-344: one iteration of the while loop
EX_Iterate ==
    /\ ex_pc = "loop"
    /\ stack # <<>>
    /\ LET st == DfsStep(lower_map, [visited |-> visited, stack |-> stack,
                                     expanded |-> expanded])
       IN /\ visited' = st.visited
          /\ stack' = st.stack
          /\ expanded' = st.expanded
    /\ UNCHANGED <<ex_pc, root_queue, routing_map, root, lower_map, ex_result>>

\* line 345
EX_Return ==
    /\ ex_pc = "loop"
    /\ stack = <<>>
    /\ ex_result' = visited
    /\ ex_pc' = "done"
    /\ UNCHANGED <<root_queue, routing_map, root, lower_map, visited, stack, expanded>>


-----------------------------------------------------------------------------
(* Numbers.  The floats of the score are modelled as exact fractions       *)
(* <<numerator, denominator>> in lowest terms with a positive denominator. *)

Abs(n) == IF n < 0 THEN -n ELSE n

RECURSIVE Gcd(_, _)
Gcd(a, b) == IF b = 0 THEN a ELSE Gcd(b, a % b)

Frac(n, d) ==
    LET g == Gcd(Abs(n), Abs(d))
        sgn == IF d < 0 THEN -1 ELSE 1
    IN <<(sgn * n) \div g, (sgn * d) \div g>>

Num(n) == <<n, 1>>

\* over the least common denominator
FAdd(a, b) ==
    LET g == Gcd(a[2], b[2])
    IN Frac(a[1] * (b[2] \div g) + b[1] * (a[2] \div g), (a[2] \div g) * b[2])

\* for b # 0
FDiv(a, b) == Frac(a[1] * b[2], a[2] * b[1])

Digits == {"0", "1", "2", "3", "4", "5", "6", "7", "8", "9"}

DigitValue(c) ==
    CASE c = "0" -> 0 [] c = "1" -> 1 [] c = "2" -> 2 [] c = "3" -> 3 [] c = "4" -> 4
      [] c = "5" -> 5 [] c = "6" -> 6 [] c = "7" -> 7 [] c = "8" -> 8 [] c = "9" -> 9

RECURSIVE DecimalFrom(_, _)
DecimalFrom(cs, acc) ==
    IF cs = <<>> THEN acc ELSE DecimalFrom(Tail(cs), 10 * acc + DigitValue(Head(cs)))

\* int(s) and float(s) of a string of characters: a value, or ValueError
ParseNumber(cs) ==
    IF cs # <<>> /\ \A k \in 1..Len(cs) : cs[k] \in Digits
    THEN [exc |-> "none", v |-> DecimalFrom(cs, 0)]
    ELSE [exc |-> "ValueError", v |-> 0]

-----------------------------------------------------------------------------
(* get_integers, string_time_to_seconds *)

\* str.split(':')
RECURSIVE SplitColon(_)
SplitColon(s) ==
    IF Positions(s, ":") = {} THEN <<s>>
    ELSE LET k == CHOOSE x \in Positions(s, ":") : \A y \in Positions(s, ":") : x <= y
         IN <<SubSeq(s, 1, k - 1)>> \o SplitColon(SubSeq(s, k + 1, Len(s)))

\* lines 347-356: the seconds of 'H:M:S'; ValueError when the string has not
\* three parts or a part is no integer
StringTimeToSeconds(stringtime) ==
    LET parts == SplitColon(stringtime)
    IN IF Len(parts) # 3 THEN [exc |-> "ValueError", v |-> 0]
       ELSE LET hr == ParseNumber(parts[1])
                mn == ParseNumber(parts[2])
                sec == ParseNumber(parts[3])
            IN IF hr.exc # "none" \/ mn.exc # "none" \/ sec.exc # "none"
               THEN [exc |-> "ValueError", v |-> 0]
               ELSE [exc |-> "none", v |-> hr.v * 60 * 60 + mn.v * 60 + sec.v]


-----------------------------------------------------------------------------
(* The job sort formula.  A formula string is a sequence of tokens: names, *)
(* integer literals, "+", "/", "(" and ")".  eval() parses it as a Python  *)
(* expression and evaluates it with the locals of the function in scope.   *)

\* lines 466-479: the local variables the formula may refer to
ScoreVariables ==
    {"base_score", "score_boost", "enable_wfp", "wfp_factor", "eligible_time",
     "walltime", "project_priority", "nodect", "total_cpus", "enable_backfill",
     "backfill_max", "backfill_factor", "enable_fifo", "fifo_factor"}

\* the variables read from the job itself and not from its Resource_List
JobTimeVariables == {"eligible_time"}

\* the variables holding a time
TimeVariables == {"eligible_time", "walltime"}

NumberTokens == {"0", "3600"}

NumberValue(tok) == IF tok = "3600" THEN 3600 ELSE 0

OperatorTokens == {"+", "/", "(", ")"}

IsName(tok) == tok \notin NumberTokens /\ tok \notin OperatorTokens

SyntaxError == [ok |-> FALSE, pos |-> 0, ast |-> <<>>]

Parsed(p, a) == [ok |-> TRUE, pos |-> p, ast |-> a]

At(t, p) == IF p <= Len(t) THEN t[p] ELSE "EOF"

RECURSIVE PExpr(_, _), PExprRest(_, _, _), PTerm(_, _), PTermRest(_, _, _)
RECURSIVE PFactor(_, _), PTrailers(_, _, _), PAtom(_, _)

\* atom: NAME | NUMBER | '(' ')' | '(' expr ')'
PAtom(t, p) ==
    LET tok == At(t, p)
    IN IF tok = "EOF" THEN SyntaxError
       ELSE IF tok \in NumberTokens THEN Parsed(p + 1, <<"num", NumberValue(tok)>>)
       ELSE IF IsName(tok) THEN Parsed(p + 1, <<"name", tok>>)
       ELSE IF tok = "(" THEN
            IF At(t, p + 1) = ")" THEN Parsed(p + 2, <<"tuple">>)
            ELSE LET e == PExpr(t, p + 1)
                 IN IF e.ok /\ At(t, e.pos) = ")" THEN Parsed(e.pos + 1, e.ast)
                    ELSE SyntaxError
       ELSE SyntaxError

\* trailers: a parenthesis after an atom is a call of it
PTrailers(t, p, callee) ==
    IF At(t, p) # "(" THEN Parsed(p, callee)
    ELSE IF At(t, p + 1) = ")" THEN PTrailers(t, p + 2, <<"call", callee, <<"none">>>>)
    ELSE LET e == PExpr(t, p + 1)
         IN IF e.ok /\ At(t, e.pos) = ")"
            THEN PTrailers(t, e.pos + 1, <<"call", callee, e.ast>>)
            ELSE SyntaxError

\* factor: '+' factor | atom trailers
PFactor(t, p) ==
    IF At(t, p) = "+"
    THEN LET f == PFactor(t, p + 1)
         IN IF f.ok THEN Parsed(f.pos, <<"pos", f.ast>>) ELSE SyntaxError
    ELSE LET a == PAtom(t, p)
         IN IF a.ok THEN PTrailers(t, a.pos, a.ast) ELSE SyntaxError

PTermRest(t, p, left) ==
    IF At(t, p) # "/" THEN Parsed(p, left)
    ELSE LET f == PFactor(t, p + 1)
         IN IF f.ok THEN PTermRest(t, f.pos, <<"div", left, f.ast>>) ELSE SyntaxError

\* term: factor ('/' factor)*
PTerm(t, p) ==
    LET f == PFactor(t, p)
    IN IF f.ok THEN PTermRest(t, f.pos, f.ast) ELSE SyntaxError

PExprRest(t, p, left) ==
    IF At(t, p) # "+" THEN Parsed(p, left)
    ELSE LET r == PTerm(t, p + 1)
         IN IF r.ok THEN PExprRest(t, r.pos, <<"add", left, r.ast>>) ELSE SyntaxError

\* expr: term ('+' term)*
PExpr(t, p) ==
    LET l == PTerm(t, p)
    IN IF l.ok THEN PExprRest(t, l.pos, l.ast) ELSE SyntaxError

\* the expression of the whole string, or a SyntaxError
ParseFormula(t) ==
    LET e == PExpr(t, 1)
    IN IF e.ok /\ e.pos = Len(t) + 1 THEN e ELSE SyntaxError

Raise(e) == [exc |-> e, kind |-> "none", v |-> <<0, 1>>]

Value(q) == [exc |-> "none", kind |-> "num", v |-> q]

EmptyTuple == [exc |-> "none", kind |-> "tuple", v |-> <<0, 1>>]

\* lines 458-465: the local variables of the function that are no score
\* variables; eval() at line 481 is called without a namespace argument, so
\* the formula is evaluated with every local variable of the function in scope
ObjectVariables ==
    {"server_data", "job_data", "server_dict", "first_server", "formula_str", "rl"}

\* the value of such a variable: the formula string is a str, the others dicts
Object(name, o) ==
    [exc |-> "none", kind |-> IF name = "formula_str" THEN "str" ELSE "dict", v |-> o]

\* the value of an expression under the local variables env, or the
\* exception that its evaluation raises; operands are evaluated left to right
RECURSIVE EvalAst(_, _)
EvalAst(a, env) ==
    CASE a[1] = "num" -> Value(Num(a[2]))
      [] a[1] = "name" ->
            IF a[2] \notin DOMAIN env THEN Raise("NameError")
            ELSE IF a[2] \in ObjectVariables THEN Object(a[2], env[a[2]])
            ELSE Value(env[a[2]])
      [] a[1] = "tuple" -> EmptyTuple
      [] a[1] = "pos" ->
            LET x == EvalAst(a[2], env)
            IN IF x.exc # "none" THEN x
               ELSE IF x.kind # "num" THEN Raise("TypeError")
               ELSE x
      [] a[1] = "call" ->
            LET f == EvalAst(a[2], env)
                x == IF a[3] = <<"none">> THEN EmptyTuple ELSE EvalAst(a[3], env)
            IN IF f.exc # "none" THEN f
               ELSE IF x.exc # "none" THEN x
               ELSE Raise("TypeError")
      [] a[1] \in {"add", "div"} ->
            LET x == EvalAst(a[2], env)
                y == EvalAst(a[3], env)
            IN IF x.exc # "none" THEN x
               ELSE IF y.exc # "none" THEN y
               ELSE IF x.kind = "tuple" /\ y.kind = "tuple" /\ a[1] = "add" THEN EmptyTuple
               ELSE IF x.kind = "str" /\ y.kind = "str" /\ a[1] = "add"
                    THEN [exc |-> "none", kind |-> "str", v |-> x.v \o y.v]
               ELSE IF x.kind # "num" \/ y.kind # "num" THEN Raise("TypeError")
               ELSE IF a[1] = "add" THEN Value(FAdd(x.v, y.v))
               ELSE IF y.v[1] = 0 THEN Raise("ZeroDivisionError")
               ELSE Value(FDiv(x.v, y.v))

\* line 481: eval(formula_str)
Eval(formula, env) ==
    LET e == ParseFormula(formula)
    IN IF e.ok THEN EvalAst(e.ast, env) ELSE Raise("SyntaxError")


-----------------------------------------------------------------------------
(* execute_job_sort_formula *)

\* dict.get(key, default)
Get(d, key, default) == IF key \in DictKeys(d) THEN DictGet(d, key) ELSE default

\* the default of rl.get(name, 0)
DefaultNumber == 0

\* the default '0:0:0' of a time
DefaultTime == <<"0", ":", "0", ":", "0">>

\* line 482: the exceptions of the except clause
HandledExceptions ==
    {"KeyError", "ValueError", "TypeError", "ZeroDivisionError", "IndexError"}

\* lines 466-479, a mutation: an absent attribute is bound to 1
ExtractVariable_DefaultOne(job, rl, name) ==
    IF name \in TimeVariables
    THEN StringTimeToSeconds(Get(IF name \in JobTimeVariables THEN job ELSE rl,
                                 name, DefaultTime))
    ELSE IF name \in DictKeys(rl) THEN ParseNumber(DictGet(rl, name))
    ELSE [exc |-> "none", v |-> DefaultNumber + 1]

\* lines 466-479, one of them: float(...) of the variable's attribute
ExtractVariable(job, rl, name) ==
    IF name \in TimeVariables
    THEN StringTimeToSeconds(Get(IF name \in JobTimeVariables THEN job ELSE rl,
                                 name, DefaultTime))
    ELSE IF name \in DictKeys(rl) THEN ParseNumber(DictGet(rl, name))
    ELSE [exc |-> "none", v |-> DefaultNumber]

\* lines 465-479: the local variables, or the first exception of a conversion
ExtractVariables(job) ==
    LET rl == Get(job, "Resource_List", <<>>)
        x == [name \in ScoreVariables |-> ExtractVariable(job, rl, name)]
    IN IF \E name \in ScoreVariables : x[name].exc # "none"
       THEN [exc |-> "ValueError", env |-> <<>>]
       ELSE [exc |-> "none", env |-> [name \in ScoreVariables |-> Num(x[name].v)]]

Zero == Value(Num(0))

\* lines 458-479: the local variables in scope at line 481: the score
\* variables env, and the objects the function has bound before them
Scope(server, job, env) ==
    LET server_dict == Get(server, "Server", <<>>)
        first_server == server_dict[1][2]
    IN env @@ [name \in ObjectVariables |->
                 CASE name = "server_data" -> server
                   [] name = "job_data" -> job
                   [] name = "server_dict" -> server_dict
                   [] name = "first_server" -> first_server
                   [] name = "formula_str" -> Get(first_server, "job_sort_formula", <<"0">>)
                   [] name = "rl" -> Get(job, "Resource_List", <<>>)]

\* lines 482-484: a handled exception becomes 0.0, another one propagates
Handle(r) == IF r.exc \in HandledExceptions THEN Zero ELSE r

\* lines 457-484: the returned value, or the exception that propagates
ExecuteJobSortFormula(server, job) ==
    LET server_dict == Get(server, "Server", <<>>)
    IN IF server_dict = <<>> THEN Zero
       ELSE LET first_server == server_dict[1][2]
                formula == Get(first_server, "job_sort_formula", <<"0">>)
                x == ExtractVariables(job)
                r == IF x.exc # "none" THEN Raise(x.exc)
                     ELSE Eval(formula, Scope(server, job, x.env))
            IN Handle(r)

-----------------------------------------------------------------------------
(* Formulas, servers and jobs for the score *)

MaxTerms == 2

FormulaAtoms == {"base_score", "eligible_time", "job_priority", "3600", "0"}

FormulaOps == {"+", "/"}

\* what the sums divide by: a variable, a number, zero
Divisors == {"base_score", "3600", "0"}

\* a, a / b
Terms == {<<a>> : a \in FormulaAtoms}
         \cup {<<a, "/", b>> : a \in FormulaAtoms, b \in Divisors}

\* the sums of n terms
RECURSIVE Sums(_)
Sums(n) == IF n = 1 THEN Terms ELSE {f \o <<"+">> \o t : f \in Sums(n - 1), t \in Terms}

\* a op ( b op c )
Grouped ==
    {<<a, op1, "(", b, op2, c, ")">> :
        a \in FormulaAtoms, b \in FormulaAtoms, c \in FormulaAtoms,
        op1 \in FormulaOps, op2 \in FormulaOps}

WithoutToken(f, k) == SubSeq(f, 1, k - 1) \o SubSeq(f, k + 1, Len(f))

\* a formula an administrator mistyped: one token is missing
Mistyped == UNION {{WithoutToken(f, k) : k \in 1..Len(f)} : f \in Grouped}

\* formulas that name a local variable of the function that is no score
\* variable
ScopeFormulas ==
    {<<o>> : o \in ObjectVariables}
    \cup {<<o, "+", a>> : o \in {"rl", "formula_str"}, a \in {"base_score", "formula_str"}}

Formulas ==
    UNION {Sums(n) : n \in 1..MaxTerms} \cup Grouped \cup Mistyped \cup ScopeFormulas \cup {<<>>}

ScoreExample == <<"base_score", "+", "eligible_time", "/", "3600">>

ServerNamed(attrs) == << <<"Server", << <<"srv", attrs>> >> >> >>

\* the answers of qstat_server: {}, no server, a server without a formula,
\* a server with a formula
ServerDatas ==
    {<<>>, << <<"Server", <<>> >> >>, ServerNamed(<<>>)}
    \cup {ServerNamed(<< <<"job_sort_formula", f>> >>) : f \in Formulas}

BaseScores == {<<"1", "0">>, <<"x">>}

EligibleTimes == {<<"0", "2", ":", "0", "0", ":", "0", "0">>, <<"0", "1", ":", "0", "2">>}

ResourceLists == {<<>>} \cup {<< <<"base_score", b>> >> : b \in BaseScores}

ScoreJobs ==
    LET rls == {<<>>} \cup {<< <<"Resource_List", rl>> >> : rl \in ResourceLists}
        ets == {<<>>} \cup {<< <<"eligible_time", e>> >> : e \in EligibleTimes}
    IN {r \o e : r \in rls, e \in ets}


-----------------------------------------------------------------------------
(* execute_job_sort_formula, step by step *)

NoScore == [exc |-> "none", kind |-> "none", v |-> <<0, 1>>]

ScoreIdle ==
    /\ sc_pc = "idle"
    /\ server_data = <<>>
    /\ job_data = <<>>
    /\ formula_str = <<>>
    /\ locals = <<>>
    /\ sc_result = NoScore

ScoreInit ==
    /\ sc_pc = "formula"
    /\ server_data \in ServerDatas
    /\ job_data \in ScoreJobs
    /\ formula_str = <<>>
    /\ locals = <<>>
    /\ sc_result = NoScore

\* lines 458-463: 0.0 without a server, else the formula of the first server
SC_Formula ==
    /\ sc_pc = "formula"
    /\ LET server_dict == Get(server_data, "Server", <<>>)
       IN IF server_dict = <<>>
          THEN /\ sc_result' = Zero
               /\ sc_pc' = "done"
               /\ UNCHANGED formula_str
          ELSE /\ formula_str' = Get(server_dict[1][2], "job_sort_formula", <<"0">>)
               /\ sc_pc' = "extract"
               /\ UNCHANGED sc_result
    /\ UNCHANGED <<server_data, job_data, locals>>

\* lines 465-479: the variables of the formula from the job
SC_Extract ==
    /\ sc_pc = "extract"
    /\ LET x == ExtractVariables(job_data)
       IN IF x.exc # "none"
          THEN /\ sc_result' = Handle(Raise(x.exc))
               /\ sc_pc' = "done"
               /\ UNCHANGED locals
          ELSE /\ locals' = Scope(server_data, job_data, x.env)
               /\ sc_pc' = "eval"
               /\ UNCHANGED sc_result
    /\ UNCHANGED <<server_data, job_data, formula_str>>

\* line 481: return eval(formula_str)
SC_Eval ==
    /\ sc_pc = "eval"
    /\ sc_result' = Handle(Eval(formula_str, locals))
    /\ sc_pc' = "done"
    /\ UNCHANGED <<server_data, job_data, formula_str, locals>>


-----------------------------------------------------------------------------
(* print_jobs: the rows and the filters.  The call is the one main() makes *)
(* without --sort and without --extraCols.  A filter that is None is the   *)
(* empty string: the code tests both with "if filter".                     *)

None == [is_none |-> TRUE, v |-> {}]

Some(x) == [is_none |-> FALSE, v |-> x]

-----------------------------------------------------------------------------
(* Dates and times.  A string is a sequence of tokens: a digit, one of the *)
(* characters ' ', ':', '/', '.', '-', '+', '[', ']', the name of a        *)
(* weekday, a month or a time zone, or a word.  A datetime is the record   *)
(* of its fields; the local time zone of the machine is taken to be UTC.   *)

WeekdayNames == {"Mon", "Tue", "Wed", "Thu", "Fri", "Sat", "Sun"}

MonthNames ==
    <<"Jan", "Feb", "Mar", "Apr", "May", "Jun", "Jul", "Aug", "Sep", "Oct", "Nov", "Dec">>

ZoneNames == {"UTC", "GMT"}

MonthNumber(tok) == CHOOSE m \in 1..12 : MonthNames[m] = tok

IsLeap(y) == (y % 4 = 0 /\ y % 100 # 0) \/ y % 400 = 0

DaysInMonth(y, m) ==
    IF m = 2 THEN (IF IsLeap(y) THEN 29 ELSE 28)
    ELSE IF m \in {4, 6, 9, 11} THEN 30 ELSE 31

\* the days from 1970-01-01 to the date
DaysFromCivil(y, m, d) ==
    LET yy == IF m <= 2 THEN y - 1 ELSE y
        era == yy \div 400
        yoe == yy - era * 400
        doy == (153 * (IF m > 2 THEN m - 3 ELSE m + 9) + 2) \div 5 + d - 1
        doe == yoe * 365 + yoe \div 4 - yoe \div 100 + doy
    IN era * 146097 + doe - 719468

\* the date that many days after 1970-01-01
CivilFromDays(days) ==
    LET z == days + 719468
        era == z \div 146097
        doe == z - era * 146097
        yoe == (doe - doe \div 1460 + doe \div 36524 - doe \div 146096) \div 365
        doy == doe - (365 * yoe + yoe \div 4 - yoe \div 100)
        mp == (5 * doy + 2) \div 153
        d == doy - (153 * mp + 2) \div 5 + 1
        m == IF mp < 10 THEN mp + 3 ELSE mp - 9
    IN [year |-> yoe + era * 400 + (IF m <= 2 THEN 1 ELSE 0), month |-> m, day |-> d]

DateTime(y, mo, d, h, mi, s) ==
    [year |-> y, month |-> mo, day |-> d, hour |-> h, minute |-> mi, second |-> s]

\* datetime.timestamp(), in seconds
Timestamp(dt) ==
    DaysFromCivil(dt.year, dt.month, dt.day) * 86400
    + dt.hour * 3600 + dt.minute * 60 + dt.second

\* datetime.fromtimestamp(n)
FromTimestamp(n) ==
    LET c == CivilFromDays(n \div 86400)
        r == n % 86400
    IN DateTime(c.year, c.month, c.day, r \div 3600, (r % 3600) \div 60, r % 60)

NoDateTime == DateTime(0, 0, 0, 0, 0, 0)

TimeError == [exc |-> "ValueError", v |-> NoDateTime]

AllDigits(s) == \A k \in 1..Len(s) : s[k] \in Digits

\* int(s) of a string: surrounding blanks and one sign are accepted
ParseInt(s) ==
    LET t == Strip(s)
        signed == t # <<>> /\ Head(t) \in {"-", "+"}
        n == ParseNumber(IF signed THEN Tail(t) ELSE t)
    IN IF n.exc # "none" THEN n
       ELSE IF signed /\ Head(t) = "-" THEN [exc |-> "none", v |-> 0 - n.v]
       ELSE n

\* the runs of non-blank tokens of a string
RECURSIVE Fields(_)
Fields(s) ==
    LET t == LStrip(s)
    IN IF t = <<>> THEN <<>>
       ELSE IF Positions(t, " ") = {} THEN <<t>>
       ELSE LET k == CHOOSE x \in Positions(t, " ") : \A y \in Positions(t, " ") : x <= y
            IN <<SubSeq(t, 1, k - 1)>> \o Fields(SubSeq(t, k + 1, Len(t)))

\* a number of one or two digits that is at most max (the strptime patterns
\* of %d, %H, %M and %S)
TwoDigitField(s, max) ==
    IF Len(s) \in {1, 2} /\ AllDigits(s) /\ DecimalFrom(s, 0) <= max
    THEN [exc |-> "none", v |-> DecimalFrom(s, 0)]
    ELSE [exc |-> "ValueError", v |-> 0]

\* the fields weekday, month, day, H:M:S and year of the two PBS formats
StrptimeFields(wd, mon, day, hms, year) ==
    LET parts == SplitColon(hms)
        d == TwoDigitField(day, 31)
    IN IF \/ wd \notin {<<n>> : n \in WeekdayNames}
          \/ mon \notin {<<MonthNames[m]>> : m \in 1..12}
          \/ d.exc # "none" \/ d.v = 0
          \/ Len(parts) # 3
          \/ ~(Len(year) = 4 /\ AllDigits(year))
       THEN TimeError
       ELSE LET h == TwoDigitField(parts[1], 23)
                mi == TwoDigitField(parts[2], 59)
                sec == TwoDigitField(parts[3], 61)
                y == DecimalFrom(year, 0)
                mo == MonthNumber(mon[1])
            IN IF \/ h.exc # "none" \/ mi.exc # "none" \/ sec.exc # "none"
                  \/ sec.v > 59 \/ y = 0 \/ d.v > DaysInMonth(y, mo)
               THEN TimeError
               ELSE [exc |-> "none", v |-> DateTime(y, mo, d.v, h.v, mi.v, sec.v)]

\* datetime.strptime(timestr, fmt) for the format number k of PBS_TIME_FORMATS:
\* "%a %b %d %H:%M:%S %Y" and "%a %b %d %H:%M:%S %Z %Y"
Strptime(timestr, k) ==
    LET f == Fields(timestr)
    IN IF timestr = <<>> \/ Head(timestr) = " " \/ timestr[Len(timestr)] = " "
       THEN TimeError
       ELSE IF k = 1 /\ Len(f) = 5 THEN StrptimeFields(f[1], f[2], f[3], f[4], f[5])
       ELSE IF k = 2 /\ Len(f) = 6 /\ f[5] \in {<<z>> : z \in ZoneNames}
            THEN StrptimeFields(f[1], f[2], f[3], f[4], f[6])
       ELSE TimeError

\* lines 52-59: the first of the two formats that parses, else the epoch
\* timestamp n, else ValueError
FirstParsed(first, second, n) ==
    IF first.exc = "none" THEN first
    ELSE IF second.exc = "none" THEN second
    ELSE IF n.exc = "none" THEN [exc |-> "none", v |-> FromTimestamp(n.v)]
    ELSE TimeError

\* lines 47-59: the datetime of a PBS time string, or ValueError
ParsePbsTime(timestr) ==
    IF timestr = <<>> THEN TimeError
    ELSE FirstParsed(Strptime(timestr, 1), Strptime(timestr, 2), ParseInt(timestr))

DigitTokens == <<"0", "1", "2", "3", "4", "5", "6", "7", "8", "9">>

\* str(n) of a natural number
RECURSIVE NatStr(_)
NatStr(n) ==
    IF n < 10 THEN <<DigitTokens[n + 1]>>
    ELSE NatStr(n \div 10) \o <<DigitTokens[(n % 10) + 1]>>

\* f"{n:02d}"
TwoDigits(n) ==
    IF n < 0 THEN <<"-">> \o NatStr(0 - n)
    ELSE IF n < 10 THEN <<"0">> \o NatStr(n)
    ELSE NatStr(n)

\* dt.strftime('%m/%d %H:%M')
StrftimeCompact(dt) ==
    TwoDigits(dt.month) \o <<"/">> \o TwoDigits(dt.day) \o <<" ">>
    \o TwoDigits(dt.hour) \o <<":">> \o TwoDigits(dt.minute)

\* datetime.strptime(f"{year} {s}", "%Y %m/%d %H:%M"), line 581
StrptimeCompact(year, s) ==
    LET f == Fields(s)
    IN IF s = <<>> \/ s[Len(s)] = " " \/ Len(f) # 2 THEN TimeError
       ELSE LET md == f[1]
                hm == SplitColon(f[2])
                slash == Positions(md, "/")
            IN IF Cardinality(slash) # 1 \/ Len(hm) # 2 THEN TimeError
               ELSE LET p == CHOOSE x \in slash : TRUE
                        mo == TwoDigitField(SubSeq(md, 1, p - 1), 12)
                        d == TwoDigitField(SubSeq(md, p + 1, Len(md)), 31)
                        h == TwoDigitField(hm[1], 23)
                        mi == TwoDigitField(hm[2], 59)
                    IN IF \/ mo.exc # "none" \/ d.exc # "none"
                          \/ h.exc # "none" \/ mi.exc # "none"
                          \/ mo.v = 0 \/ d.v = 0 \/ d.v > DaysInMonth(year, mo.v)
                       THEN TimeError
                       ELSE [exc |-> "none", v |-> DateTime(year, mo.v, d.v, h.v, mi.v, 0)]

-----------------------------------------------------------------------------
(* detect_value_type, convert_value_for_sorting.  A value is None or       *)
(* Some(string); a number stands as the string that str() makes of it.     *)

\* the value None
NoneValue == [is_none |-> TRUE, v |-> <<>>]

\* the placeholder '--'
Placeholder == <<"-", "-">>

RECURSIVE Pow10(_)
Pow10(k) == IF k = 0 THEN 1 ELSE 10 * Pow10(k - 1)

FloatError == [exc |-> "ValueError", v |-> <<0, 1>>]

\* float(s) of a string over the tokens: [sign] digits [. digits]
ParseFloat(s) ==
    LET t == Strip(s)
        signed == t # <<>> /\ Head(t) \in {"-", "+"}
        u == IF signed THEN Tail(t) ELSE t
        dots == Positions(u, ".")
        p == IF dots = {} THEN Len(u) + 1 ELSE CHOOSE x \in dots : TRUE
        whole == SubSeq(u, 1, p - 1)
        frac == SubSeq(u, p + 1, Len(u))
        q == Frac(DecimalFrom(whole, 0) * Pow10(Len(frac)) + DecimalFrom(frac, 0),
                  Pow10(Len(frac)))
    IN IF \/ Cardinality(dots) > 1
          \/ ~AllDigits(whole) \/ ~AllDigits(frac)
          \/ (whole = <<>> /\ frac = <<>>)
       THEN FloatError
       ELSE [exc |-> "none", v |-> IF signed /\ Head(t) = "-" THEN <<0 - q[1], q[2]>> ELSE q]

\* line 516: re.match(r'^\d+:\d{2}:\d{2}$', str_value)
MatchTime(s) ==
    LET parts == SplitColon(s)
    IN /\ Len(parts) = 3
       /\ parts[1] # <<>> /\ AllDigits(parts[1])
       /\ Len(parts[2]) = 2 /\ AllDigits(parts[2])
       /\ Len(parts[3]) = 2 /\ AllDigits(parts[3])

\* line 528: re.match(r'^\d{2}/\d{2}\s+\d{2}:\d{2}$', str_value)
MatchCompact(s) ==
    LET f == Fields(s)
    IN /\ s # <<>> /\ Head(s) # " " /\ s[Len(s)] # " "
       /\ Len(f) = 2
       /\ Len(f[1]) = 5 /\ f[1][3] = "/" /\ AllDigits(SubSeq(f[1], 1, 2))
       /\ AllDigits(SubSeq(f[1], 4, 5))
       /\ Len(f[2]) = 5 /\ f[2][3] = ":" /\ AllDigits(SubSeq(f[2], 1, 2))
       /\ AllDigits(SubSeq(f[2], 4, 5))

\* lines 510-538, a mutation: the numeric test comes before the two tests
\* for dates
DetectValueType_NumericFirst(val) ==
    IF val.is_none \/ val.v = Placeholder \/ val.v = <<>> THEN "empty"
    ELSE LET str_value == Strip(val.v)
         IN IF MatchTime(str_value) THEN "time"
            ELSE IF ParseFloat(str_value).exc = "none" THEN "numeric"
            ELSE IF ParsePbsTime(str_value).exc = "none" THEN "datetime"
            ELSE IF MatchCompact(str_value) THEN "submitted_time"
            ELSE "string"

\* lines 515-538, for str_value; the loop of lines 520-525 makes the same
\* call in each of its two rounds
DetectStripped(str_value) ==
    IF MatchTime(str_value) THEN "time"
    ELSE IF ParsePbsTime(str_value).exc = "none" THEN "datetime"
    ELSE IF MatchCompact(str_value) THEN "submitted_time"
    ELSE IF ParseFloat(str_value).exc = "none" THEN "numeric"
    ELSE "string"

\* lines 510-538
DetectValueType(val) ==
    IF val.is_none \/ val.v = Placeholder \/ val.v = <<>> THEN "empty"
    ELSE DetectStripped(Strip(val.v))

\* a sort key of a row: the tuple (flag, v) of convert_value_for_sorting, or
\* the plain value v of the other columns with flag 0; v is a number (a
\* fraction) or a string
NumKey(flag, q) == [flag |-> flag, kind |-> "num", v |-> q]

StrKey(flag, s) == [flag |-> flag, kind |-> "str", v |-> s]

\* lines 561-562
ValidFlag(rev) == IF rev THEN 1 ELSE 0

\* line 562, a mutation: the empty flag is the valid flag
EmptyFlag_AsValid(rev) == ValidFlag(rev)

EmptyFlag(rev) == IF rev THEN 0 ELSE 1

\* lines 566, 589: (empty_flag, 0)
EmptyKey(rev) == NumKey(EmptyFlag(rev), Num(0))

\* lines 570-572, 589: the key of a number of seconds x, (empty_flag, 0)
\* when the conversion raised
SecondsKey(x, rev) ==
    IF x.exc # "none" THEN EmptyKey(rev) ELSE NumKey(ValidFlag(rev), Num(x.v))

\* lines 574-582, 589: the key of a datetime x
TimestampKey(x, rev) ==
    IF x.exc # "none" THEN EmptyKey(rev) ELSE NumKey(ValidFlag(rev), Num(Timestamp(x.v)))

\* lines 584, 589: the key of a float x
FloatKey(x, rev) ==
    IF x.exc # "none" THEN EmptyKey(rev) ELSE NumKey(ValidFlag(rev), x.v)

\* lines 568-589, for str_value and the detected type vtype
ConvertStripped(str_value, vtype, rev, year) ==
    CASE vtype = "time" -> SecondsKey(StringTimeToSeconds(str_value), rev)
      [] vtype = "datetime" -> TimestampKey(ParsePbsTime(str_value), rev)
      [] vtype = "submitted_time" -> TimestampKey(StrptimeCompact(year, str_value), rev)
      [] vtype = "numeric" -> FloatKey(ParseFloat(str_value), rev)
      [] OTHER -> StrKey(ValidFlag(rev), Lower(str_value))

\* lines 558-589, for the detected type vtype; year is datetime.now().year
ConvertTyped(val, vtype, rev, year) ==
    IF vtype = "empty" THEN EmptyKey(rev)
    ELSE ConvertStripped(Strip(val.v), vtype, rev, year)

\* lines 540-589, called without value_type
ConvertValueForSorting(val, rev, year) ==
    ConvertTyped(val, DetectValueType(val), rev, year)

-----------------------------------------------------------------------------
(* convert_value_for_sorting called on a value, step by step *)

\* words that stand in free-text values
Words == {"DEBUG", "debug", "Unknown"}

Str(s) == Some(s)

DurationValues ==
    {<<"0", "1", ":", "3", "0", ":", "0", "0">>,
     <<"1", ":", "3", "0", ":", "0", "0">>,
     <<"1", "0", "0", ":", "0", "0", ":", "0", "0">>,
     <<" ", "0", "2", ":", "0", "0", ":", "0", "0", " ">>,
     <<"0", "1", ":", "9", "9", ":", "9", "9">>}

\* 'Fri Nov 10 11:34:29 2023' and the like
PbsTime(wd, mon, day, hms, zone, year) ==
    <<wd, " ", mon, " ">> \o day \o <<" ">> \o hms \o <<" ">> \o zone \o year

TimestampValues ==
    {PbsTime("Fri", "Nov", <<"1", "0">>, <<"1", "1", ":", "3", "4", ":", "2", "9">>,
             <<>>, <<"2", "0", "2", "3">>),
     PbsTime("Fri", "Nov", <<"1", "0">>, <<"1", "1", ":", "3", "4", ":", "2", "9">>,
             <<"UTC", " ">>, <<"2", "0", "2", "3">>),
     PbsTime("Sat", "Nov", <<"1", "1">>, <<"0", "9", ":", "0", "0", ":", "0", "0">>,
             <<>>, <<"2", "0", "2", "3">>),
     PbsTime("Thu", "Feb", <<"2", "9">>, <<"1", "0", ":", "0", "0", ":", "0", "0">>,
             <<>>, <<"2", "0", "2", "4">>)}

\* texts that are integers: the epoch seconds of the fallback of line 57
IntegerValues ==
    {<<"4">>, <<"1", "2", "8">>, <<"-", "5">>,
     <<"1", "7", "0", "0", "0", "0", "0", "0", "0", "0">>}

CompactValues ==
    {<<"1", "1", "/", "1", "0", " ", "1", "1", ":", "3", "4">>,
     <<"1", "1", "/", "1", "1", " ", "0", "9", ":", "0", "0">>,
     <<"0", "2", "/", "2", "9", " ", "1", "0", ":", "0", "0">>,
     <<"1", "3", "/", "4", "5", " ", "9", "9", ":", "9", "9">>}

DecimalValues ==
    {<<"1", ".", "5">>, <<"4", ".", "0">>, <<".", "5">>, <<"-", "1", ".", "5">>}

TextValues ==
    {<<w>> : w \in Words}
    \cup {<<" ">>, <<"0", ":", "0", ":", "0">>, <<"1", ".", "2", ".", "3">>,
          <<"1", "1", "/", "1", "0">>,
          PbsTime("Thu", "Feb", <<"3", "0">>, <<"1", "0", ":", "0", "0", ":", "0", "0">>,
                  <<>>, <<"2", "0", "2", "3">>)}

SortValues ==
    {NoneValue, Str(<<>>), Str(Placeholder)}
    \cup {Str(s) : s \in DurationValues \cup TimestampValues \cup IntegerValues
                         \cup CompactValues \cup DecimalValues \cup TextValues}

\* the years datetime.now() can be in: a common year and a leap year
Years == {2027, 2028}

NoKey == [flag |-> -1, kind |-> "none", v |-> <<0, 1>>]

SortKeyIdle ==
    /\ sk_pc = "idle"
    /\ value = NoneValue
    /\ reverse = FALSE
    /\ current_year = 0
    /\ value_type = "None"
    /\ sort_key = NoKey

SortKeyInit ==
    /\ sk_pc = "detect"
    /\ value \in SortValues
    /\ reverse \in BOOLEAN
    /\ current_year \in Years
    /\ value_type = "None"
    /\ sort_key = NoKey

\* lines 555-556
SK_Detect ==
    /\ sk_pc = "detect"
    /\ value_type' = DetectValueType(value)
    /\ sk_pc' = "convert"
    /\ UNCHANGED <<value, reverse, current_year, sort_key>>

\* lines 558-589
SK_Convert ==
    /\ sk_pc = "convert"
    /\ sort_key' = ConvertTyped(value, value_type, reverse, current_year)
    /\ sk_pc' = "done"
    /\ UNCHANGED <<value, reverse, current_year, value_type>>

-----------------------------------------------------------------------------
(* The display columns of a row: format_time_display,                      *)
(* format_datetime_compact, calculate_elapsed_runtime, and the extra       *)
(* columns.  The fields of a job are strings, but for Resource_List and    *)
(* Variable_List, which are dicts of strings.                              *)

\* the number of characters of a token
TokenLen(tok) ==
    IF tok \in WeekdayNames \cup ZoneNames \cup {MonthNames[m] : m \in 1..12} THEN 3
    ELSE IF tok \in {"DEBUG", "debug"} THEN 5
    ELSE IF tok = "Unknown" THEN 7
    ELSE 1

RECURSIVE CharLen(_)
CharLen(s) == IF s = <<>> THEN 0 ELSE TokenLen(Head(s)) + CharLen(Tail(s))

\* s[:n], for a cut between two tokens
RECURSIVE Truncate(_, _)
Truncate(s, n) ==
    IF s = <<>> \/ TokenLen(Head(s)) > n THEN <<>>
    ELSE <<Head(s)>> \o Truncate(Tail(s), n - TokenLen(Head(s)))

\* lines 368-372
FormatTimeDisplay(time_str) ==
    IF time_str = <<>> \/ time_str = <<"0", ":", "0", ":", "0">> THEN Placeholder
    ELSE time_str

\* lines 387-393, for the parsed datetime dt
CompactOf(datetime_str, dt) ==
    IF dt.exc = "none" THEN StrftimeCompact(dt.v)
    ELSE IF CharLen(datetime_str) > 15 THEN Truncate(datetime_str, 15)
    ELSE datetime_str

\* lines 374-393
FormatDatetimeCompact(datetime_str) ==
    IF datetime_str = <<>> \/ datetime_str = Placeholder THEN Placeholder
    ELSE CompactOf(datetime_str, ParsePbsTime(datetime_str))

\* lines 395-397
FormatSubmittedTime(qtime_str) == FormatDatetimeCompact(qtime_str)

\* lines 436-441: HH:MM:SS of a number of seconds
FormatElapsed(total_seconds) ==
    TwoDigits(total_seconds \div 3600) \o <<":">>
    \o TwoDigits((total_seconds % 3600) \div 60) \o <<":">>
    \o TwoDigits(total_seconds % 60)

\* lines 409-444, for the parsed start_time and end_time
ElapsedBetween(job_state, stime, obittime, start_time, end_time, clock) ==
    IF job_state = <<"Q">> THEN Placeholder
    ELSE IF stime = <<>> THEN Placeholder
    ELSE IF start_time.exc # "none" THEN Placeholder
    ELSE IF job_state = <<"R">>
         THEN FormatElapsed(Timestamp(clock) - Timestamp(start_time.v))
    ELSE IF obittime = <<>> THEN Placeholder
    ELSE IF end_time.exc # "none" THEN Placeholder
    ELSE FormatElapsed(Timestamp(end_time.v) - Timestamp(start_time.v))

\* lines 409-444, for the state and the times of the job
ElapsedRuntime(job_state, stime, obittime, clock) ==
    ElapsedBetween(job_state, stime, obittime, ParsePbsTime(stime),
                   ParsePbsTime(obittime), clock)

\* lines 399-444; clock is datetime.now()
CalculateElapsedRuntime(job, clock) ==
    ElapsedRuntime(Get(job, "job_state", <<>>), Get(job, "stime", <<>>),
                   Get(job, "obittime", <<>>), clock)

\* str.split('.')
RECURSIVE SplitDot(_)
SplitDot(s) ==
    IF Positions(s, ".") = {} THEN <<s>>
    ELSE LET k == CHOOSE x \in Positions(s, ".") : \A y \in Positions(s, ".") : x <= y
         IN <<SubSeq(s, 1, k - 1)>> \o SplitDot(SubSeq(s, k + 1, Len(s)))

\* lines 603-608: the field path of a column specification
FieldPath(column_spec) ==
    IF Positions(column_spec, ":") = {} THEN column_spec
    ELSE LET k == CHOOSE x \in Positions(column_spec, ":") :
                      \A y \in Positions(column_spec, ":") : x <= y
         IN SubSeq(column_spec, 1, k - 1)

\* lines 603-608, 776-779: the display name of a column specification
DisplayName(column_spec) ==
    IF Positions(column_spec, ":") = {}
    THEN LET parts == SplitDot(column_spec) IN parts[Len(parts)]
    ELSE LET k == CHOOSE x \in Positions(column_spec, ":") :
                      \A y \in Positions(column_spec, ":") : x <= y
         IN SubSeq(column_spec, k + 1, Len(column_spec))

\* the fields of a job that are dicts
DictFields == {"Resource_List", "Variable_List"}

\* lines 611-625: the value at the path, '--' when a key is missing or the
\* path ends at a dict
Navigate(job, field_path) ==
    LET keys == SplitDot(field_path)
        top == IF keys[1] = <<>> THEN "" ELSE keys[1][1]
    IN IF Len(keys[1]) # 1 \/ top \notin DictKeys(job) THEN Placeholder
       ELSE IF top \in DictFields
            THEN IF Len(keys) = 2 /\ Len(keys[2]) = 1
                    /\ keys[2][1] \in DictKeys(DictGet(job, top))
                 THEN DictGet(DictGet(job, top), keys[2][1])
                 ELSE Placeholder
       ELSE IF Len(keys) = 1 THEN DictGet(job, top)
       ELSE Placeholder

\* lines 486-498, with AWARD_CATEGORY_MAP of lines 76-80
GetAwardCategoryDisplay(award_category) ==
    IF award_category = <<>> THEN Placeholder
    ELSE IF award_category = <<"Discretionary">> THEN <<"DD">>
    ELSE award_category

\* lines 626-628
AwardDisplay(field_path, found) ==
    IF field_path = <<"Resource_List", ".", "award_category">>
    THEN GetAwardCategoryDisplay(found)
    ELSE found

\* lines 630-635
CompactDatetime(val) ==
    IF val # <<>> /\ val # Placeholder /\ DetectValueType(Some(val)) = "datetime"
    THEN FormatDatetimeCompact(val)
    ELSE val

\* lines 610-635, for the field path
ValueAtPath(job, field_path) ==
    CompactDatetime(AwardDisplay(field_path, Navigate(job, field_path)))

\* lines 591-637: the value of the column
ExtractExtraColumnValue(job, column_spec) == ValueAtPath(job, FieldPath(column_spec))

\* lines 639-658: the dict of the extra columns, display name to value
RECURSIVE GetExtraColumnsData(_, _, _)
GetExtraColumnsData(job, columns, extra_data) ==
    IF columns = <<>> THEN extra_data
    ELSE GetExtraColumnsData(job, Tail(columns),
             DictPut(extra_data, DisplayName(Head(columns)),
                     ExtractExtraColumnValue(job, Head(columns))))


-----------------------------------------------------------------------------
(* print_jobs: the rows and the filters, continued *)

UpperToken(tok) ==
    CASE tok = "a" -> "A"
      [] tok = "l" -> "L"
      [] tok = "r" -> "R"
      [] tok = "q" -> "Q"
      [] OTHER -> tok

\* str.upper()
Upper(str) == [k \in 1..Len(str) |-> UpperToken(str[k])]

\* jobid.split('.')[0]
BeforeDot(jobid) ==
    IF Positions(jobid, ".") = {} THEN jobid
    ELSE LET k == CHOOSE x \in Positions(jobid, ".") : \A y \in Positions(jobid, ".") : x <= y
         IN SubSeq(jobid, 1, k - 1)

\* lines 707-709: set(jid.strip() for jid in jobid_filter.split(',') if jid.strip())
JobidSet(filter) ==
    LET parts == SplitComma(filter)
    IN {Strip(parts[k]) : k \in {x \in 1..Len(parts) : Strip(parts[x]) # <<>>}}

\* lines 696-704, a mutation: the filter's own name and no destination
ExpandedQueueSet_RootOnly(filter, queues) == Some({Lower(BeforeAt(filter))})

\* lines 696-704: the expanded set of the queue filter, or None when it is empty
ExpandedQueueSet(filter, queues) ==
    LET expanded_set == ExpandRoutedQueues(filter, BuildRoutingMap(queues))
    IN IF expanded_set # {} THEN Some(expanded_set) ELSE None

\* line 736, a mutation: a queue whose name contains a member passes
InExpanded_Substring(queue, queue_set) == \E q \in queue_set : Contains(Lower(queue), q)

\* line 736: queue.lower() in expanded_queue_set
InExpanded(queue, queue_set) == Lower(queue) \in queue_set

\* line 739: queue_filter.lower() in queue.lower()
QueueContains(queue, filter) == Contains(Lower(queue), Lower(filter))

\* lines 734-740
PassesQueue(queue, filter, queue_set) ==
    IF filter = <<>> THEN TRUE
    ELSE IF ~queue_set.is_none THEN InExpanded(queue, queue_set.v)
    ELSE QueueContains(queue, filter)

\* lines 727-728
PassesJobid(jobid_short, id_set) ==
    id_set.is_none \/ id_set.v = {} \/ jobid_short \in id_set.v

\* lines 729-733: the letters of the filter in upper case, unless it is 'all'
PassesState(job_state, filter) ==
    \/ filter = <<>>
    \/ Lower(filter) = <<"a", "l", "l">>
    \/ job_state \in {<<Upper(filter)[k]>> : k \in 1..Len(filter)}

\* lines 741-744: filter.lower() in field.lower()
PassesSubstring(field, filter) == filter = <<>> \/ Contains(Lower(field), Lower(filter))

\* a Variable_List that is a text, not a dict
TextVariableList == <<"PBS_O_LOGNAME", "=", "bob">>

\* isinstance(val, dict), for the values of the model
IsDict(val) == val # TextVariableList

\* line 717: job.get('Variable_List', {}).get(...) raises AttributeError
\* when the Variable_List of the job is not a dict
RowError(job) ==
    IF ~IsDict(Get(job, "Variable_List", <<>>)) THEN "AttributeError" ELSE "none"

\* lines 716-724, 746-762: the row of a job; clock is datetime.now(), columns
\* the extra columns of the call, whose values are kept in the field extra
RowOf(jobid, job, score, clock, columns) ==
    [jobid |-> BeforeDot(jobid),
     user |-> Get(Get(job, "Variable_List", <<>>), "PBS_O_LOGNAME", <<"Unknown">>),
     state |-> Get(job, "job_state", <<"Unknown">>),
     queue |-> Get(job, "queue", <<"Unknown">>),
     nodes |-> Get(Get(job, "Resource_List", <<>>), "nodect", <<"0">>),
     score |-> score,
     project |-> Get(job, "project", <<"Unknown">>),
     walltime |-> FormatTimeDisplay(Get(Get(job, "Resource_List", <<>>), "walltime",
                                        Placeholder)),
     runtime |-> CalculateElapsedRuntime(job, clock),
     submitted |-> FormatSubmittedTime(Get(job, "qtime", <<>>)),
     extra |-> GetExtraColumnsData(job, columns, <<>>)]

-----------------------------------------------------------------------------
(* print_jobs: the sort stage.  list.sort computes the key of every row,   *)
(* then orders the rows with the < of the keys; it is stable, also with    *)
(* reverse=True.                                                           *)

\* the tokens of the sort keys in the order of their text (code points); a
\* word is compared as a whole, which is the order of the texts when no word
\* is followed by a letter
TokenOrder ==
    <<" ", "+", "-", "-scaling", ".", "/",
      "0", "1", "2", "3", "4", "5", "6", "7", "8", "9", ":",
      "DEBUG", "F", "Feb", "Fri", "H", "Nov", "Q", "R", "Sat", "Thu", "UTC", "Unknown",
      "[", "]",
      "ali", "bob", "ce", "debug", "f", "feb", "fri", "nov", "pbs", "prod", "proja",
      "projb", "q", "r", "sat", "thu", "unknown", "utc">>

TokenRank(tok) == CHOOSE k \in 1..Len(TokenOrder) : TokenOrder[k] = tok

\* s < t for two strings
RECURSIVE StrLess(_, _)
StrLess(s, t) ==
    IF t = <<>> THEN FALSE
    ELSE IF s = <<>> THEN TRUE
    ELSE IF Head(s) = Head(t) THEN StrLess(Tail(s), Tail(t))
    ELSE TokenRank(Head(s)) < TokenRank(Head(t))

\* a < b for two numbers
NumLess(a, b) ==
    LET qa == a[1] \div a[2]
        qb == b[1] \div b[2]
    IN qa < qb \/ (qa = qb /\ (a[1] % a[2]) * b[2] < (b[1] % b[2]) * a[2])

\* a < b raises TypeError: after equal flags, a number meets a string
Incomparable(a, b) == a.flag = b.flag /\ a.kind # b.kind

\* a < b for two comparable keys
KeyLess(a, b) ==
    IF a.flag # b.flag THEN a.flag < b.flag
    ELSE IF a.kind = "num" THEN NumLess(a.v, b.v)
    ELSE StrLess(a.v, b.v)

\* x[name] of a row: job_dict.update(extra_data) of line 762 lets an extra
\* column replace a column of the same name
RowGet(row, name) ==
    IF <<name>> \in DictKeys(row.extra) THEN DictGet(row.extra, <<name>>) ELSE row[name]

KeyRaises == [exc |-> "ValueError", key |-> NoKey]

KeyOk(k) == [exc |-> "none", key |-> k]

\* line 776-780
ExtraColumnNames(columns) == [k \in 1..Len(columns) |-> DisplayName(columns[k])]

SortFields ==
    {"score", "state", "nodes", "user", "queue", "project", "jobid",
     "walltime", "runtime", "submitted"}

\* lines 782-807: the branch of the sort field
IsExtraSort(field, columns) ==
    \E k \in 1..Len(columns) : ExtraColumnNames(columns)[k] = field

IsKnownSort(field, columns) ==
    IsExtraSort(field, columns) \/ (Len(field) = 1 /\ field[1] \in SortFields)

\* lines 784-807: the key function of the sort field applied to a row, or
\* the exception it raises; rev is reverse_order, year that of datetime.now()
\* lines 784, 801-807: the value that convert_value_for_sorting is called on
ConvertedValue(row, field, columns) ==
    IF IsExtraSort(field, columns)
    THEN IF field \in DictKeys(row.extra) THEN DictGet(row.extra, field) ELSE Placeholder
    ELSE RowGet(row, field[1])

\* line 798: int(x['jobid']) for the parsed n
IntKey(n) == IF n.exc # "none" THEN KeyRaises ELSE KeyOk(NumKey(0, Num(n.v)))

SortKeyOf(row, field, columns, rev, year) ==
    IF IsExtraSort(field, columns) \/ field[1] \in {"walltime", "runtime", "submitted"}
    THEN KeyOk(ConvertValueForSorting(Some(ConvertedValue(row, field, columns)), rev, year))
    ELSE CASE field[1] = "score" -> KeyOk(NumKey(0, RowGet(row, "score")))
           [] field[1] = "state" -> KeyOk(StrKey(0, RowGet(row, "state")))
           [] field[1] = "nodes" ->
                 KeyOk(NumKey(0, Num(DecimalFrom(RowGet(row, "nodes"), 0))))
           [] field[1] \in {"user", "queue", "project"} ->
                 KeyOk(StrKey(0, Lower(RowGet(row, field[1]))))
           [] field[1] = "jobid" -> IntKey(ParseInt(RowGet(row, "jobid")))

Reverse(s) == [k \in 1..Len(s) |-> s[Len(s) + 1 - k]]

\* the item e put into the sorted list s, after the items that are not
\* greater; an item is <<key, row>>
RECURSIVE Insert(_, _)
Insert(s, e) ==
    IF s = <<>> THEN <<e>>
    ELSE IF KeyLess(e[1], s[Len(s)][1])
         THEN Append(Insert(SubSeq(s, 1, Len(s) - 1), e), s[Len(s)])
    ELSE Append(s, e)

\* the stable ascending sort of the items
RECURSIVE SortAscending(_)
SortAscending(items) ==
    IF items = <<>> THEN <<>>
    ELSE Insert(SortAscending(SubSeq(items, 1, Len(items) - 1)), items[Len(items)])

\* list.sort, a mutation: the descending sort is the reversed ascending sort
SortItems_ReverseAscending(items, rev) ==
    IF rev THEN Reverse(SortAscending(items)) ELSE SortAscending(items)

\* list.sort(key=..., reverse=rev) on the rows with their keys: reverse=True
\* sorts the reversed list and reverses the result
SortItems(items, rev) ==
    IF rev THEN Reverse(SortAscending(Reverse(items))) ELSE SortAscending(items)

\* the second components of the items
Rows(items) == [k \in 1..Len(items) |-> items[k][2]]

\* list.sort of the rows with the results keys of the key function:
\* ValueError when the key function raised, TypeError when two keys cannot
\* be compared
SortByKeys(rows, keys, rev) ==
    IF \E k \in 1..Len(rows) : keys[k].exc # "none"
    THEN [exc |-> "ValueError", rows |-> <<>>]
    ELSE IF \E j, k \in 1..Len(rows) : Incomparable(keys[j].key, keys[k].key)
    THEN [exc |-> "TypeError", rows |-> <<>>]
    ELSE [exc |-> "none",
          rows |-> Rows(SortItems([k \in 1..Len(rows) |-> <<keys[k].key, rows[k]>>], rev))]

\* lines 769-809, a mutation: without a known sort field the rows are
\* reversed
SortStage_ReversesUnsorted(rows, field, columns, rev, year) ==
    IF field = <<>> \/ ~IsKnownSort(field, columns)
    THEN [exc |-> "none", rows |-> Reverse(rows)]
    ELSE [exc |-> "none", rows |-> rows]

\* lines 769-809: the rows after the sort stage, or the exception that
\* leaves print_jobs: ValueError from a key function, TypeError from the
\* comparison of two keys
SortStage(rows, field, columns, rev, year) ==
    IF field = <<>> \/ ~IsKnownSort(field, columns) THEN [exc |-> "none", rows |-> rows]
    ELSE SortByKeys(rows, [k \in 1..Len(rows) |->
                             SortKeyOf(rows[k], field, columns, rev, year)], rev)

\* lines 812-813
ApplyLimit(rows, n) == IF n > 0 THEN SubSeq(rows, 1, Min(n, Len(rows))) ELSE rows

\* lines 812-813 after a sort stage that did not raise
Limited(sorted, n) ==
    IF sorted.exc # "none" THEN sorted
    ELSE [exc |-> "none", rows |-> ApplyLimit(sorted.rows, n)]

\* lines 768-813, a mutation: the limit is applied before the sort
SortAndLimit_LimitFirst(rows, field, columns, rev, year, n) ==
    SortStage(ApplyLimit(rows, n), field, columns, rev, year)

\* lines 768-813: the rows to print, or the exception of the sort stage
SortAndLimit(rows, field, columns, rev, year, n) ==
    Limited(SortStage(rows, field, columns, rev, year), n)


-----------------------------------------------------------------------------
(* The snapshots, queue data and filters print_jobs is called with *)

Route(dest_list) ==
    [queue_type |-> "Route", route_destinations |-> [kind |-> "list", v |-> dest_list]]

Execution == [queue_type |-> "Execution", route_destinations |-> [kind |-> "none", v |-> <<>>]]

\* debug routes to debug-scaling
DebugToScaling == << <<QDebug, Route(<<QScaling>>)>>, <<QScaling, Execution>> >>

\* debug routes to debug-scaling, and that to prod
DebugToScalingToProd ==
    << <<QDebug, Route(<<QScaling>>)>>, <<QScaling, Route(<<QProd>>)>> >>

\* DEBUG@srv routes to debug-scaling and prod, named in a string
UpperToBoth ==
    << <<QDebugUpper \o <<"@srv">>,
         [queue_type |-> "Route",
          route_destinations |-> [kind |-> "str", v |-> QScaling \o <<",", " ">> \o QProd]]>> >>

\* prod routes to debug
ProdToDebug == << <<QProd, Route(<<QDebug>>)>>, <<QDebug, Execution>> >>

\* what qstat_queues answers; nothing when the command fails
PrintQueuesData == {<<>>, DebugToScaling, DebugToScalingToProd, UpperToBoth, ProdToDebug}

Alice == <<"ali", "ce">>
Bob == <<"bob">>

JobOf(queue, job_state, user, project) ==
    << <<"queue", queue>>, <<"job_state", <<job_state>>>>,
       <<"Variable_List", << <<"PBS_O_LOGNAME", user>> >> >>, <<"project", project>> >>

\* the jobs of the system, in the order of the qstat output; the last one
\* has no queue and no state
JobUniverse ==
    << << <<"111", ".", "pbs">>, JobOf(QDebug, "R", Alice, <<"projA">>)
            \o << <<"Resource_List", << <<"base_score", <<"1", "0">>>>,
                                        <<"nodect", <<"4">>>> >> >>,
                  <<"eligible_time", <<"0", "2", ":", "0", "0", ":", "0", "0">>>> >> >>,
       << <<"112", ".", "pbs">>, JobOf(QScaling, "Q", Bob, <<"projB">>) >>,
       << <<"113", ".", "pbs">>, JobOf(QProd, "R", Alice, <<"projB">>) >>,
       << <<"114", ".", "pbs">>, JobOf(<<"DEBUG", "-scaling">>, "Q", Alice, <<"projA">>) >>,
       << <<"115", ".", "pbs">>,
          << <<"Variable_List", << <<"PBS_O_LOGNAME", Bob>> >> >>, <<"project", <<"projA">>>> >> >> >>

\* the members of a set of positions, in increasing order
RECURSIVE Ascending(_)
Ascending(S) ==
    IF S = {} THEN <<>>
    ELSE LET m == CHOOSE x \in S : \A y \in S : x <= y
         IN <<m>> \o Ascending(S \ {m})

\* job_data['Jobs']: up to MaxJobs jobs of the system
Snapshots ==
    { [k \in 1..Len(Ascending(S)) |-> JobUniverse[Ascending(S)[k]]] :
        S \in {T \in SUBSET (1..Len(JobUniverse)) : Cardinality(T) <= MaxJobs} }

\* what qstat_server answers: a formula over the score variables, a formula
\* with a name that is none of them
PrintServers ==
    { ServerNamed(<< <<"job_sort_formula", ScoreExample>> >>),
      ServerNamed(<< <<"job_sort_formula", <<"job_priority", "+", "base_score">>>> >>) }

QueueFilters ==
    { <<>>, QDebug, QDebugUpper \o <<"@srv">>, QScaling, QProd, <<"-scaling">>, <<"@srv">> }

StateFilters == { <<>>, <<"r">>, <<"A", "l", "l">> }

UserFilters == { <<>>, <<"ALI">> }

ProjectFilters == { <<>>, <<"projA">> }

JobidFilters == { <<>>, <<"111", ",", " ", "113">> }

\* limit: None is 0
Limits == { 0, 1 }

\* datetime.now() of the calls without times
PrintClock == DateTime(2027, 6, 1, 12, 0, 0)

\* datetime.now(): in a common year, in a leap year
Clocks == {DateTime(2027, 6, 1, 12, 0, 0), DateTime(2028, 6, 1, 12, 0, 0)}

FriNov10 ==
    PbsTime("Fri", "Nov", <<"1", "0">>, <<"1", "1", ":", "3", "4", ":", "2", "9">>,
            <<>>, <<"2", "0", "2", "3">>)

SatNov11 ==
    PbsTime("Sat", "Nov", <<"1", "1">>, <<"0", "9", ":", "0", "0", ":", "0", "0">>,
            <<>>, <<"2", "0", "2", "3">>)

ThuFeb29 ==
    PbsTime("Thu", "Feb", <<"2", "9">>, <<"1", "0", ":", "0", "0", ":", "0", "0">>,
            <<>>, <<"2", "0", "2", "4">>)

NinetyMinutes == <<"0", "1", ":", "3", "0", ":", "0", "0">>

\* jobs with times, in the order of the qstat output: a running job; a queued
\* job with the same node count and walltime; a finished array job without
\* walltime and submission time; a queued job without resources, submitted
\* on a 29th of February; a queued job whose Variable_List is a text
SortJobUniverse ==
    << << <<"1", "2", ".", "pbs">>,
          JobOf(QDebug, "R", Alice, <<"projA">>)
          \o << <<"Resource_List", << <<"base_score", <<"1", "0">>>>, <<"nodect", <<"4">>>>,
                                      <<"walltime", NinetyMinutes>> >> >>,
                <<"stime", FriNov10>>, <<"qtime", FriNov10>>,
                <<"Job_Name", <<"debug">>>> >> >>,
       << <<"7", ".", "pbs">>,
          JobOf(QProd, "Q", Bob, <<"projB">>)
          \o << <<"Resource_List", << <<"nodect", <<"4">>>>,
                                      <<"walltime", NinetyMinutes>> >> >>,
                <<"qtime", SatNov11>>, <<"Job_Name", <<"1", ".", "5">>>> >> >>,
       << <<"1", "3", "[", "]", ".", "pbs">>,
          JobOf(QDebug, "F", Alice, <<"projA">>)
          \o << <<"Resource_List", << <<"nodect", <<"1">>>>,
                                      <<"walltime", <<"0", ":", "0", ":", "0">>>> >> >>,
                <<"stime", FriNov10>>, <<"obittime", SatNov11>> >> >>,
       << <<"9", ".", "pbs">>,
          JobOf(QProd, "Q", Bob, <<"projA">>)
          \o << <<"qtime", ThuFeb29>>, <<"Job_Name", <<"DEBUG">>>> >> >>,
       << <<"8", ".", "pbs">>,
          << <<"queue", QDebug>>, <<"job_state", <<"Q">>>>,
             <<"Variable_List", TextVariableList>>, <<"project", <<"projA">>>>,
             <<"qtime", FriNov10>> >> >> >>

\* the sequences of n distinct jobs of the universe, in any order
RECURSIVE Arrangements(_)
Arrangements(n) ==
    IF n = 0 THEN {<<>>}
    ELSE {Append(a, k) : a \in Arrangements(n - 1), k \in 1..Len(SortJobUniverse)}

\* job_data['Jobs']: up to MaxJobs jobs, in any order
SortSnapshots ==
    { [k \in 1..Len(a) |-> SortJobUniverse[a[k]]] :
        a \in {b \in UNION {Arrangements(n) : n \in 0..MaxJobs} :
                  \A j, k \in 1..Len(b) : j # k => b[j] # b[k]} }

SortStateFilters == { <<>>, <<"R", "Q">> }

SortLimits == { 0, 1, 2 }

\* --sort: none, the ten fields, an extra column, an unknown field
SortBys ==
    {<<>>, <<"stime">>, <<"Job_Name">>, <<"priority">>} \cup {<<f>> : f \in SortFields}

\* --extraCols
ExtraColumnLists == { <<>>, << <<"stime">> >>, << <<"Job_Name">> >> }

-----------------------------------------------------------------------------
(* print_jobs, one job per step *)

PrintIdle ==
    /\ pj_pc = "idle"
    /\ jobs = <<>>
    /\ pj_server_data = <<>>
    /\ queues_data = <<>>
    /\ state_filter = <<>>
    /\ queue_filter = <<>>
    /\ user_filter = <<>>
    /\ project_filter = <<>>
    /\ jobid_filter = <<>>
    /\ limit = 0
    /\ sort_by = <<>>
    /\ reverse_order = FALSE
    /\ extra_columns = <<>>
    /\ now = NoDateTime
    /\ expanded_queue_set = None
    /\ jobid_set = None
    /\ job_list = <<>>
    /\ job_index = 0
    /\ verdicts = <<>>
    /\ emitted = <<>>
    /\ pj_raised = "none"

PrintInit ==
    /\ pj_pc = "prepare"
    /\ jobs \in Snapshots
    /\ pj_server_data \in PrintServers
    /\ queues_data \in PrintQueuesData
    /\ state_filter \in StateFilters
    /\ queue_filter \in QueueFilters
    /\ user_filter \in UserFilters
    /\ project_filter \in ProjectFilters
    /\ jobid_filter \in JobidFilters
    /\ limit \in Limits
    /\ sort_by = <<>>
    /\ reverse_order = FALSE
    /\ extra_columns = <<>>
    /\ now = PrintClock
    /\ expanded_queue_set = None
    /\ jobid_set = None
    /\ job_list = <<>>
    /\ job_index = 0
    /\ verdicts = <<>>
    /\ emitted = <<>>
    /\ pj_raised = "none"

\* the call with a sort field, a direction and extra columns, on jobs with
\* times; no queue, user, project or job id filter
PrintSortInit ==
    /\ pj_pc = "prepare"
    /\ jobs \in SortSnapshots
    /\ pj_server_data = ServerNamed(<< <<"job_sort_formula", ScoreExample>> >>)
    /\ queues_data = <<>>
    /\ state_filter \in SortStateFilters
    /\ queue_filter = <<>>
    /\ user_filter = <<>>
    /\ project_filter = <<>>
    /\ jobid_filter = <<>>
    /\ limit \in SortLimits
    /\ sort_by \in SortBys
    /\ reverse_order \in BOOLEAN
    /\ extra_columns \in ExtraColumnLists
    /\ now \in Clocks
    /\ expanded_queue_set = None
    /\ jobid_set = None
    /\ job_list = <<>>
    /\ job_index = 0
    /\ verdicts = <<>>
    /\ emitted = <<>>
    /\ pj_raised = "none"

\* --extraCols of the calls without a sort: a plain field, a field of
\* Resource_List, a field shown under the name of a base column, two fields
\* shown under one name
ColumnLists ==
    { <<>>,
      << <<"Job_Name">> >>,
      << <<"Resource_List", ".", "nodect">> >>,
      << <<"Job_Name", ":", "user">> >>,
      << <<"stime", ":", "when">>, <<"qtime", ":", "when">> >>,
      << <<"Job_Name">>, <<"Resource_List", ".", "walltime">> >> }

\* a finished job whose obittime is earlier than its stime
EarlyObitJob ==
    << <<"5", ".", "pbs">>,
       JobOf(QProd, "F", Bob, <<"projB">>)
       \o << <<"stime", SatNov11>>, <<"obittime", FriNov10>>,
             <<"Job_Name", <<"debug">>>> >> >>

\* the snapshots of the calls without a sort: those of the calls with a
\* sort, and the job with the early obittime alone or after another job
ColumnSnapshots ==
    SortSnapshots \cup {<<EarlyObitJob>>}
    \cup {<<SortJobUniverse[k], EarlyObitJob>> : k \in 1..Len(SortJobUniverse)}

\* the call with extra columns and no filter, sort or limit
PrintColumnsInit ==
    /\ pj_pc = "prepare"
    /\ jobs \in ColumnSnapshots
    /\ pj_server_data = ServerNamed(<< <<"job_sort_formula", ScoreExample>> >>)
    /\ queues_data = <<>>
    /\ state_filter = <<>>
    /\ queue_filter = <<>>
    /\ user_filter = <<>>
    /\ project_filter = <<>>
    /\ jobid_filter = <<>>
    /\ limit = 0
    /\ sort_by = <<>>
    /\ reverse_order = FALSE
    /\ extra_columns \in ColumnLists
    /\ now \in Clocks
    /\ expanded_queue_set = None
    /\ jobid_set = None
    /\ job_list = <<>>
    /\ job_index = 0
    /\ verdicts = <<>>
    /\ emitted = <<>>
    /\ pj_raised = "none"

printInputs == <<jobs, pj_server_data, queues_data, state_filter, queue_filter,
                 user_filter, project_filter, jobid_filter, limit, sort_by,
                 reverse_order, extra_columns, now>>

\* lines 690-709: return when there is no job; else the expanded queue set
\* and the set of job ids
PJ_Prepare ==
    /\ pj_pc = "prepare"
    /\ IF jobs = <<>>
       THEN /\ pj_pc' = "done"
            /\ UNCHANGED <<expanded_queue_set, jobid_set, job_index>>
       ELSE /\ expanded_queue_set' =
                  IF queue_filter # <<>> THEN ExpandedQueueSet(queue_filter, queues_data)
                  ELSE None
            /\ jobid_set' = IF jobid_filter # <<>> THEN Some(JobidSet(jobid_filter)) ELSE None
            /\ job_index' = 1
            /\ pj_pc' = "rows"
    /\ UNCHANGED <<printInputs, job_list, verdicts, emitted, pj_raised>>

\* lines 714-766, a mutation: the project filter is not applied
Verdict_WithoutProject(jobid, job, score) ==
    LET row == RowOf(jobid, job, score.v, now, extra_columns)
    IN IF score.exc # "none" \/ RowError(job) # "none" THEN "error"
       ELSE IF ~PassesJobid(row.jobid, jobid_set) THEN "jobid"
       ELSE IF ~PassesState(row.state, state_filter) THEN "state"
       ELSE IF ~PassesQueue(row.queue, queue_filter, expanded_queue_set) THEN "queue"
       ELSE IF ~PassesSubstring(row.user, user_filter) THEN "user"
       ELSE "row"

\* lines 727-744: the filter that rejects the row, or "row"
FilterVerdict(row) ==
    IF ~PassesJobid(row.jobid, jobid_set) THEN "jobid"
    ELSE IF ~PassesState(row.state, state_filter) THEN "state"
    ELSE IF ~PassesQueue(row.queue, queue_filter, expanded_queue_set) THEN "queue"
    ELSE IF ~PassesSubstring(row.user, user_filter) THEN "user"
    ELSE IF ~PassesSubstring(row.project, project_filter) THEN "project"
    ELSE "row"

\* lines 714-766, the body of the loop for one job: where the job leaves it
Verdict(jobid, job, score) ==
    IF score.exc # "none" \/ RowError(job) # "none" THEN "error"
    ELSE FilterVerdict(RowOf(jobid, job, score.v, now, extra_columns))

\* lines 713-766, a mutation: an error in the body ends the loop
PJ_Row_ErrorEndsLoop ==
    /\ pj_pc = "rows"
    /\ job_index <= Len(jobs)
    /\ \E score \in {ExecuteJobSortFormula(pj_server_data, jobs[job_index][2])} :
       \E verdict \in {Verdict(jobs[job_index][1], jobs[job_index][2], score)} :
          /\ verdicts' = Append(verdicts, verdict)
          /\ job_list' =
                IF verdict = "row"
                THEN Append(job_list, RowOf(jobs[job_index][1], jobs[job_index][2],
                                            score.v, now, extra_columns))
                ELSE job_list
          /\ job_index' = IF verdict = "error" THEN Len(jobs) + 1 ELSE job_index + 1
    /\ UNCHANGED <<printInputs, pj_pc, expanded_queue_set, jobid_set, emitted, pj_raised>>

\* lines 713-766: one iteration of the loop over the jobs
PJ_Row ==
    /\ pj_pc = "rows"
    /\ job_index <= Len(jobs)
    /\ \E score \in {ExecuteJobSortFormula(pj_server_data, jobs[job_index][2])} :
       \E verdict \in {Verdict(jobs[job_index][1], jobs[job_index][2], score)} :
          /\ verdicts' = Append(verdicts, verdict)
          /\ job_list' =
                IF verdict = "row"
                THEN Append(job_list, RowOf(jobs[job_index][1], jobs[job_index][2],
                                            score.v, now, extra_columns))
                ELSE job_list
    /\ job_index' = job_index + 1
    /\ UNCHANGED <<printInputs, pj_pc, expanded_queue_set, jobid_set, emitted, pj_raised>>

\* lines 768-870: the sort, the limit and the output of the rows; an
\* exception of the sort stage leaves print_jobs before any row is printed
PJ_Emit ==
    /\ pj_pc = "rows"
    /\ job_index > Len(jobs)
    /\ \E sorted \in {SortAndLimit(job_list, sort_by, extra_columns, reverse_order,
                                    now.year, limit)} :
          IF sorted.exc # "none"
          THEN /\ pj_raised' = sorted.exc
               /\ pj_pc' = "raised"
               /\ UNCHANGED emitted
          ELSE /\ emitted' = sorted.rows
               /\ pj_pc' = "done"
               /\ UNCHANGED pj_raised
    /\ UNCHANGED <<printInputs, expanded_queue_set, jobid_set, job_list, job_index, verdicts>>


-----------------------------------------------------------------------------
(* The state codes: get_full_state_name and get_state_code, defined in     *)
(* pu_qstat.py and in pbs/pbs_states.py over the JOB_STATE_MAP of each     *)
(* module.                                                                 *)

\* pbs/pbs_states.py, lines 3-13
JOB_STATE_MAP_pbs_states ==
    << <<<<"Q">>, <<"Queued">>>>, <<<<"R">>, <<"Running">>>>, <<<<"H">>, <<"Held">>>>,
       <<<<"W">>, <<"Waiting">>>>, <<<<"T">>, <<"Transit">>>>, <<<<"E">>, <<"Exiting">>>>,
       <<<<"B">>, <<"Begun">>>>, <<<<"S">>, <<"Suspended">>>>, <<<<"C">>, <<"Completed">>>> >>

\* pu_qstat.py, lines 62-73
JOB_STATE_MAP_pu_qstat ==
    JOB_STATE_MAP_pbs_states \o << <<<<"F">>, <<"Finished">>>> >>

Modules == {"pu_qstat", "pbs_states"}

\* the JOB_STATE_MAP of the module
JOB_STATE_MAP(module) ==
    IF module = "pu_qstat" THEN JOB_STATE_MAP_pu_qstat ELSE JOB_STATE_MAP_pbs_states

\* JOB_STATE_MAP.get(state_code, "Unknown")
GetFullStateName(module, code) == Get(JOB_STATE_MAP(module), code, <<"Unknown">>)

\* the loop of get_state_code over the items from the k-th one
RECURSIVE StateCodeFrom(_, _, _)
StateCodeFrom(map, k, name) ==
    IF k > Len(map) THEN <<"Unknown">>
    ELSE IF Lower(map[k][2]) = Lower(name) THEN map[k][1]
    ELSE StateCodeFrom(map, k + 1, name)

GetStateCode(module, name) == StateCodeFrom(JOB_STATE_MAP(module), 1, name)

\* the ten state codes of PBS
StateCodes ==
    {<<"Q">>, <<"R">>, <<"H">>, <<"W">>, <<"T">>, <<"E">>, <<"B">>, <<"S">>, <<"C">>, <<"F">>}

\* the codes the functions are called with: the ten codes, and texts that
\* are no code
StateCodeInputs ==
    StateCodes \cup {<<"X">>, <<"q">>, <<"r">>, <<"f">>, <<>>, <<"A">>, <<"Unknown">>,
                     <<"Q", "R">>}

StateMapIdle ==
    /\ sm_pc = "idle"
    /\ sm_module = "pu_qstat"
    /\ state_code = <<>>
    /\ full_state_name = <<>>
    /\ sm_code = <<>>

StateMapInit ==
    /\ sm_pc = "name"
    /\ sm_module \in Modules
    /\ state_code \in StateCodeInputs
    /\ full_state_name = <<>>
    /\ sm_code = <<>>

\* get_full_state_name(state_code)
SM_FullName ==
    /\ sm_pc = "name"
    /\ full_state_name' = GetFullStateName(sm_module, state_code)
    /\ sm_pc' = "code"
    /\ UNCHANGED <<sm_module, state_code, sm_code>>

\* get_state_code(full_state_name)
SM_Code ==
    /\ sm_pc = "code"
    /\ sm_code' = GetStateCode(sm_module, full_state_name)
    /\ sm_pc' = "done"
    /\ UNCHANGED <<sm_module, state_code, full_state_name>>

-----------------------------------------------------------------------------
(* The node summary of pbs/pbsnodes.py: get_node_states,                   *)
(* get_nodes_in_state, count_nodes and print_nodes_in_state.  The nodes of *)
(* pbs_nodes_data['nodes'] are numbered in the order of the dict and each  *)
(* is given by its state, a text of state names and commas; a list of      *)
(* nodes is a sequence of node numbers.                                    *)

MaxNodes == 3

\* the states of a node: a single state name, or several joined by commas
NodeStateTexts ==
    {<<"free">>, <<"job-exclusive">>, <<"resv-exclusive">>, <<"job-busy">>,
     <<"down", ",", "offline">>, <<"job-exclusive", ",", "resv-exclusive">>}

\* pbs_nodes_data['nodes']: up to MaxNodes nodes
NodeSnapshots == UNION {[1..n -> NodeStateTexts] : n \in 0..MaxNodes}

\* the sequences that list every element of the set once
Orderings(set) ==
    {f \in [1..Cardinality(set) -> set] : \A j, k \in DOMAIN f : j # k => f[j] # f[k]}

\* pbsnodes.py, lines 253-263: list(set(...)); the order of the list is
\* that of the iteration over a set of strings, any order
GetNodeStates(data) == Orderings({data[n] : n \in 1..Len(data)})

\* [n for n in nodes if n['state'] == state]
NodesWithState(data, node_state) ==
    SelectSeq([n \in 1..Len(data) |-> n], LAMBDA n : data[n] = node_state)

\* pbsnodes.py, lines 265-276, for the list of the unique states
GetNodesInState(data, unique_states) ==
    [k \in 1..Len(unique_states) |->
        <<unique_states[k], NodesWithState(data, unique_states[k])>>]

\* pbsnodes.py, lines 229-239
CountNodes(data) == Len(data)

\* pbsnodes.py, lines 315-323: the summary category of a state, <<>> when no
\* branch of the if takes the state
NoCategory == <<>>

SummaryCategory(node_state) ==
    IF Contains(node_state, <<"resv-exclusive">>) THEN <<"in-reservation">>
    ELSE IF Contains(node_state, <<"job-exclusive">>) THEN <<"in-use">>
    ELSE IF Contains(node_state, <<"down">>) \/ Contains(node_state, <<"offline">>)
    THEN <<"offline">>
    ELSE IF Contains(node_state, <<"free">>) THEN <<"free">>
    ELSE NoCategory

\* pbsnodes.py, lines 313-325: the loop over the states from the k-th one
RECURSIVE SummarizeFrom(_, _, _)
SummarizeFrom(in_state, k, new_nodes_in_state) ==
    IF k > Len(in_state) THEN new_nodes_in_state
    ELSE LET category == SummaryCategory(in_state[k][1])
         IN SummarizeFrom(in_state, k + 1,
                IF category = NoCategory THEN new_nodes_in_state
                ELSE DictPut(new_nodes_in_state, category,
                             Get(new_nodes_in_state, category, <<>>) \o in_state[k][2]))

\* pbsnodes.py, lines 327-333: a row per key with the length of its list,
\* then the total row
TableData(in_state, total) ==
    [k \in 1..Len(in_state) |-> <<in_state[k][1], Len(in_state[k][2])>>]
    \o << <<<<"Total nodes">>, total>> >>

NodesIdle ==
    /\ nd_pc = "idle"
    /\ pbs_nodes_data = <<>>
    /\ summarize = FALSE
    /\ nodes_in_state = <<>>
    /\ total_nodes = 0
    /\ table_data = <<>>

NodesInit ==
    /\ nd_pc = "start"
    /\ pbs_nodes_data \in NodeSnapshots
    /\ summarize \in BOOLEAN
    /\ nodes_in_state = <<>>
    /\ total_nodes = 0
    /\ table_data = <<>>

\* pbsnodes.py, lines 307-309
ND_NodesInState ==
    /\ nd_pc = "start"
    /\ \E unique_states \in GetNodeStates(pbs_nodes_data) :
          nodes_in_state' = GetNodesInState(pbs_nodes_data, unique_states)
    /\ total_nodes' = CountNodes(pbs_nodes_data)
    /\ nd_pc' = IF summarize THEN "summarize" ELSE "table"
    /\ UNCHANGED <<pbs_nodes_data, summarize, table_data>>

\* pbsnodes.py, lines 312-325
ND_Summarize ==
    /\ nd_pc = "summarize"
    /\ nodes_in_state' = SummarizeFrom(nodes_in_state, 1, <<>>)
    /\ nd_pc' = "table"
    /\ UNCHANGED <<pbs_nodes_data, summarize, total_nodes, table_data>>

\* pbsnodes.py, lines 327-336
ND_Table ==
    /\ nd_pc = "table"
    /\ table_data' = TableData(nodes_in_state, total_nodes)
    /\ nd_pc' = "done"
    /\ UNCHANGED <<pbs_nodes_data, summarize, nodes_in_state, total_nodes>>

-----------------------------------------------------------------------------
(* Claims about repair_qstat_json *)

\* the number of record-start lines of a text
RecordStarts(text) ==
    LET ls == Split(text)
    IN Cardinality({k \in 1..Len(ls) : MatchJobEntry(Strip(ls[k]))})

InsertBefore(ls, k, l) == SubSeq(ls, 1, k - 1) \o <<l>> \o SubSeq(ls, k, Len(ls))

\* valid JSON whose "Jobs" object holds per-job objects
WellFormedJobs(text) ==
    LET r == JsonLoads(text)
    IN /\ r.ok
       /\ r.val.t = "obj"
       /\ "'Jobs'" \in DOMAIN r.val.v
       /\ r.val.v["'Jobs'"].t = "obj"
       /\ \A id \in DOMAIN JobsOf(r.val) : JobsOf(r.val)[id].t = "obj"

\* the record-start lines before which one closing line '},' makes the text well
\* formed, with every record-start line the key of a job of the container
MissingCloseAt(text) ==
    LET ls == Split(text)
    IN {k \in 1..Len(ls) :
          /\ MatchJobEntry(Strip(ls[k]))
          /\ LET fixed == Join(InsertBefore(ls, k, ClosingLine))
             IN /\ WellFormedJobs(fixed)
                /\ Cardinality(DOMAIN JobsOf(JsonLoads(fixed).val)) = RecordStarts(text)}

\* exactly one per-job object lacks its closing brace before the next record-start line
OneUnterminated(text) ==
    ~JsonLoads(text).ok /\ Cardinality(MissingCloseAt(text)) = 1

\* the text with the missing closing line in its place
Terminated(text) ==
    LET ls == Split(text)
        k == CHOOSE x \in MissingCloseAt(text) : TRUE
    IN Join(InsertBefore(ls, k, ClosingLine))

\* C1: given text in which exactly one per-job object lacks its closing brace
\* before the next record-start line, repair_qstat_json inserts exactly one
\* closing-brace line, the repaired text parses, and the parsed jobs are those
\* of the record-start lines, each with its own job_state.
C1_RepairsOneUnterminated ==
    (pc = "done" /\ OneUnterminated(json_text)) =>
        /\ inserted = 1
        /\ JsonLoads(repaired_text).ok
        /\ LET got == JobsOf(JsonLoads(repaired_text).val)
               want == JobsOf(JsonLoads(Terminated(json_text)).val)
           IN /\ Cardinality(DOMAIN got) = RecordStarts(json_text)
              /\ \A id \in DOMAIN want :
                    id \in DOMAIN got /\ JobStateOf(got[id]) = JobStateOf(want[id])

\* C2: for every well-formed job-container text repair_qstat_json returns its input.
C2_WellFormedNoOp ==
    (pc = "done" /\ WellFormedJobs(json_text)) => repaired_text = json_text

-----------------------------------------------------------------------------
(* Claims about qstat_jobs *)

\* C3: qstat_jobs never lets a JSON parse error escape; it attempts the repair
\* exactly once and only after the initial parse has failed; if the repaired
\* text still fails to parse it returns {"Jobs": {}} with an error marker; when
\* the initial parse succeeds the parsed result is returned without any repair.
C3_ParseErrorContained ==
    /\ raised # "JSONDecodeError"
    /\ repair_calls <= 1
    /\ repair_calls = 1 => ~JsonLoads(output).ok
    /\ (qj_pc = "done" /\ completed_process = "returncode 0") =>
          IF JsonLoads(output).ok
          THEN repair_calls = 0 /\ result = JsonLoads(output).val
          ELSE /\ repair_calls = 1
               /\ ~JsonLoads(repaired_output).ok =>
                     /\ result.t = "obj"
                     /\ DOMAIN result.v = {"'Jobs'", "'error'"}
                     /\ result.v["'Jobs'"] = JsonObj(<<>>)

\* the repair was tried, the repaired text still does not parse, and the empty
\* job set came back
C3_Witness ==
    /\ qj_pc = "done"
    /\ repair_calls = 1
    /\ ~JsonLoads(repaired_output).ok
    /\ result = EmptyJobs("JSON parsing failed even after repair")
    /\ raised = "none"


-----------------------------------------------------------------------------
(* Claims about expand_routed_queues *)

\* a name lower-cased, its '@' qualifier stripped
NormalName(n) == Lower(BeforeAt(n))

\* the routing queues of a routing map
RoutingQueues(rm) == {NormalName(rm[k][1]) : k \in 1..Len(rm)}

\* the route-destination edges of a routing map
Edges(rm) ==
    UNION { {<<NormalName(rm[k][1]), NormalName(rm[k][2][j])>> : j \in 1..Len(rm[k][2])} :
            k \in 1..Len(rm) }

\* the queues reachable from those of S
RECURSIVE ReachFrom(_, _)
ReachFrom(S, E) ==
    LET T == S \cup {e[2] : e \in {x \in E : x[1] \in S}}
    IN IF T = S THEN S ELSE ReachFrom(T, E)

\* no two routing queues have the same lower-cased name
DistinctLowered(rm) ==
    \A a, b \in 1..Len(rm) : a # b => NormalName(rm[a][1]) # NormalName(rm[b][1])

\* what C4 says of a finished call with normalised root r
ClosureOf(r) ==
    /\ r \notin RoutingQueues(routing_map) => ex_result = {r}
    /\ r \in RoutingQueues(routing_map) => ex_result = ReachFrom({r}, Edges(routing_map))
    /\ r \in ex_result

NoRepeat(s) == \A a, b \in 1..Len(s) : a # b => s[a] # s[b]

\* C5: the call terminates for every routing map, cycles and self-loops
\* included, and adds each queue to the visited set at most once.
C5_TerminatesVisitOnce == [](NoRepeat(expanded)) /\ <>(ex_pc = "done")

\* a finished call over a map with a cycle through root and with a self-loop
C5_Witness ==
    /\ ex_pc = "done"
    /\ \E q \in ex_result :
          /\ q # root
          /\ <<root, q>> \in Edges(routing_map)
          /\ <<q, root>> \in Edges(routing_map)
          /\ <<q, q>> \in Edges(routing_map)


-----------------------------------------------------------------------------
(* Claims about execute_job_sort_formula *)

\* the call met a failure: no server entry, a malformed attribute value, or
\* a formula whose evaluation raises
ScoreFailure ==
    \/ Get(server_data, "Server", <<>>) = <<>>
    \/ ExtractVariables(job_data).exc # "none"
    \/ Eval(Get(Get(server_data, "Server", <<>>)[1][2], "job_sort_formula", <<"0">>),
            Scope(server_data, job_data, ExtractVariables(job_data).env)).exc # "none"

\* C9: for every server data, job record and formula string the call raises
\* nothing, and returns 0.0 whenever an extraction or the evaluation fails.
C9_FailureGivesZero ==
    sc_pc = "done" => /\ sc_result.exc = "none"
                      /\ ScoreFailure => sc_result = Zero

\* the score variable is absent from the job record
Absent(job, name) ==
    IF name \in JobTimeVariables THEN name \notin DictKeys(job)
    ELSE name \notin DictKeys(Get(job, "Resource_List", <<>>))

\* the formula with the token tok in the place of every reference to name
Substitute(formula, name, tok) ==
    [k \in 1..Len(formula) |-> IF formula[k] = name THEN tok ELSE formula[k]]

HasAttribute(job, rl_name, val) ==
    /\ "Resource_List" \in DictKeys(job)
    /\ rl_name \in DictKeys(DictGet(job, "Resource_List"))
    /\ DictGet(DictGet(job, "Resource_List"), rl_name) = val

\* C10: a score variable that is absent from the job record is bound to 0: the
\* formula that is just its name yields 0, and any formula yields what it
\* yields with the literal 0 written for that name; with base_score 10 and an
\* eligible_time of 02:00:00 the formula base_score + eligible_time / 3600
\* yields 12.
C10_AbsentVariableIsZero ==
    /\ \A name \in ScoreVariables :
          Absent(job_data, name) =>
             /\ locals # <<>> => locals[name] = Num(0)
             /\ sc_pc = "done" /\ formula_str = <<name>> => sc_result = Zero
             /\ sc_pc = "done" /\ locals # <<>> =>
                   sc_result = Handle(Eval(Substitute(formula_str, name, "0"), locals))
    /\ /\ sc_pc = "done"
       /\ formula_str = ScoreExample
       /\ HasAttribute(job_data, "base_score", <<"1", "0">>)
       /\ "eligible_time" \in DictKeys(job_data)
       /\ DictGet(job_data, "eligible_time") = <<"0", "2", ":", "0", "0", ":", "0", "0">>
       => sc_result = Value(Num(12))

\* a finished call whose formula refers to base_score, on a job without a
\* base_score and with two hours of eligible time: the score is 2
C10_Witness ==
    /\ sc_pc = "done"
    /\ formula_str = ScoreExample
    /\ Absent(job_data, "base_score")
    /\ ~Absent(job_data, "eligible_time")
    /\ sc_result = Value(Num(2))

\* C11: the score is a function of the formula and of the values of the named
\* score variables alone: a call on any other job record that yields the same
\* values of the score variables returns the same score, and the score is a
\* number.
C11_ScoreFromNamedVariablesOnly ==
    sc_pc = "done" =>
       /\ sc_result.exc = "none" => sc_result.kind = "num"
       /\ \A other \in ScoreJobs :
             ExtractVariables(other) = ExtractVariables(job_data) =>
                ExecuteJobSortFormula(server_data, other) = sc_result


-----------------------------------------------------------------------------
(* Claims about the queue filter of print_jobs *)

\* the queue of the k-th job of the snapshot, as the row has it
JobQueue(k) == Get(jobs[k][2], "queue", <<"Unknown">>)

\* the k-th job came as far as the queue filter
AtQueueFilter(k) == verdicts[k] \in {"queue", "user", "project", "row"}

\* the call has a queue filter and no other filter, no limit, and every row is built
OnlyQueueFilter ==
    /\ queue_filter # <<>>
    /\ state_filter = <<>> /\ user_filter = <<>> /\ project_filter = <<>>
    /\ jobid_filter = <<>> /\ limit = 0
    /\ \A k \in 1..Len(verdicts) : verdicts[k] # "error"

\* the short ids of the emitted rows
EmittedIds == {emitted[k].jobid : k \in 1..Len(emitted)}

\* the short ids of the jobs of the snapshot whose lower-cased queue is in S
IdsQueuedIn(S) == {BeforeDot(jobs[k][1]) : k \in {x \in 1..Len(jobs) : Lower(JobQueue(x)) \in S}}

PrintRoutingMap == BuildRoutingMap(queues_data)

FilterQueue == NormalName(queue_filter)

\* the queues from which a queue is reached: it and the routing queues upstream
Upstream(q, E) == {u \in {e[1] : e \in E} \cup {q} : q \in ReachFrom({u}, E)}

C8_QueueFilterPartialMatch ==
    queue_filter # <<>> =>
        \A k \in 1..Len(verdicts) :
           AtQueueFilter(k) /\ Contains(Lower(JobQueue(k)), Lower(queue_filter))
              => verdicts[k] # "queue"


-----------------------------------------------------------------------------
(* Claims about detect_value_type and convert_value_for_sorting *)

\* the categories, in the order of their tests
Precedence == <<"empty", "time", "datetime", "submitted_time", "numeric", "string">>

\* the value passes the test of the k-th category
Fits(val, k) ==
    CASE k = 1 -> val.is_none \/ val.v = <<>> \/ val.v = Placeholder
      [] k = 2 -> ~val.is_none /\ MatchTime(Strip(val.v))
      [] k = 3 -> ~val.is_none /\ ParsePbsTime(Strip(val.v)).exc = "none"
      [] k = 4 -> ~val.is_none /\ MatchCompact(Strip(val.v))
      [] k = 5 -> ~val.is_none /\ ParseFloat(Strip(val.v)).exc = "none"
      [] k = 6 -> TRUE

-----------------------------------------------------------------------------
(* Claims about the sort stage of print_jobs *)

\* the sort field is a column sorted through convert_value_for_sorting
ConvertSorted ==
    \/ IsExtraSort(sort_by, extra_columns)
    \/ sort_by \in {<<"walltime">>, <<"runtime">>, <<"submitted">>}

\* the value of the row in the sorted column
SortedValue(row) ==
    IF IsExtraSort(sort_by, extra_columns)
    THEN (IF sort_by \in DictKeys(row.extra) THEN DictGet(row.extra, sort_by)
          ELSE Placeholder)
    ELSE RowGet(row, sort_by[1])

\* the value of the row is empty, the placeholder, or a MM/DD HH:MM text that
\* is no date of the current year
EmptyValued(row) ==
    LET v == SortedValue(row)
    IN \/ v = <<>>
       \/ v = Placeholder
       \/ /\ DetectValueType(Some(v)) = "submitted_time"
          /\ StrptimeCompact(now.year, Strip(v)).exc # "none"

\* C13: when the rows are sorted by walltime, runtime, submitted or an extra
\* column, every printed row whose value is empty, the placeholder or fails
\* conversion comes after every printed row with a valid value, ascending and
\* descending.
C13_EmptyValuesLast ==
    pj_pc = "done" /\ ConvertSorted =>
       \A j, k \in 1..Len(emitted) :
          EmptyValued(emitted[j]) /\ ~EmptyValued(emitted[k]) => k < j

\* a descending sort by the extra column stime of a job without start time
\* followed by a job with one: the job without comes last
C13_Witness ==
    /\ pj_pc = "done"
    /\ sort_by = <<"stime">>
    /\ extra_columns = << <<"stime">> >>
    /\ reverse_order
    /\ Len(job_list) = 2
    /\ EmptyValued(job_list[1]) /\ ~EmptyValued(job_list[2])
    /\ emitted = <<job_list[2], job_list[1]>>

\* the rows whose value in the sorted column is not empty
NonEmptyRows(rows) ==
    SelectSeq(rows, LAMBDA r : ~(ConvertSorted /\ EmptyValued(r)))

\* the rows the call prints when it is made in the other direction
OtherDirection ==
    SortStage(job_list, sort_by, extra_columns, ~reverse_order, now.year)

\* the value that the sort compares for the row: the sort key without its flag
ComparedValue(row) ==
    LET k == SortKeyOf(row, sort_by, extra_columns, reverse_order, now.year).key
    IN [kind |-> k.kind, v |-> k.v]

ComparedValues(rows) == [k \in 1..Len(rows) |-> ComparedValue(rows[k])]

\* the place of a printed row in the list of the rows before the sort
InputPlace(row) == CHOOSE k \in 1..Len(job_list) : job_list[k] = row

\* a call without limit that has sorted its rows by a known field
SortedCall == pj_pc = "done" /\ limit = 0 /\ IsKnownSort(sort_by, extra_columns)

KeyOfRow(k) ==
    SortKeyOf(job_list[k], sort_by, extra_columns, reverse_order, now.year).key

\* C15: any two sort keys that convert_value_for_sorting makes for the values
\* of one extra column can be compared, also when the column mixes kinds, so
\* the sort by an extra column never raises a comparison error.
C15_ExtraColumnKeysComparable ==
    (pj_pc \in {"done", "raised"} /\ IsExtraSort(sort_by, extra_columns)) =>
       /\ \A j, k \in 1..Len(job_list) : ~Incomparable(KeyOfRow(j), KeyOfRow(k))
       /\ pj_raised # "TypeError"

-----------------------------------------------------------------------------
(* Claims about the filters and the limit of print_jobs *)

\* the row of the k-th job of the snapshot
JobRow(k) ==
    RowOf(jobs[k][1], jobs[k][2], ExecuteJobSortFormula(pj_server_data, jobs[k][2]).v,
          now, extra_columns)

FilterNames == {"jobid", "state", "queue", "user", "project"}

\* the filters in the order of the code, in the reverse order and in the
\* rotations of the order of the code
FilterOrders ==
    { <<"jobid", "state", "queue", "user", "project">>,
      <<"project", "user", "queue", "state", "jobid">>,
      <<"state", "queue", "user", "project", "jobid">>,
      <<"queue", "user", "project", "jobid", "state">>,
      <<"user", "project", "jobid", "state", "queue">>,
      <<"project", "jobid", "state", "queue", "user">> }

\* the row passes the filter of that name of the call
PassesFilter(name, row) ==
    CASE name = "jobid" -> PassesJobid(row.jobid, jobid_set)
      [] name = "state" -> PassesState(row.state, state_filter)
      [] name = "queue" -> PassesQueue(row.queue, queue_filter, expanded_queue_set)
      [] name = "user" -> PassesSubstring(row.user, user_filter)
      [] name = "project" -> PassesSubstring(row.project, project_filter)

\* the filters evaluated one after the other, the first failure rejects
RECURSIVE PassesInOrder(_, _)
PassesInOrder(row, order) ==
    IF order = <<>> THEN TRUE
    ELSE IF ~PassesFilter(Head(order), row) THEN FALSE
    ELSE PassesInOrder(row, Tail(order))

\* the rows of the jobs of the snapshot
JobRows == [k \in 1..Len(jobs) |-> JobRow(k)]

\* of the rows of the jobs, in snapshot order, the rows that were built and
\* pass the filters of the order
KeptBy(rows, order) ==
    LET S == {k \in 1..Len(rows) : verdicts[k] # "error" /\ PassesInOrder(rows[k], order)}
    IN [x \in 1..Cardinality(S) |-> rows[Ascending(S)[x]]]

RowSet(rows) == {rows[k] : k \in 1..Len(rows)}

\* the loop over the jobs has ended
RowsBuilt == pj_pc = "rows" /\ job_index > Len(jobs)

\* C16: the rows kept before the limit are the rows of the jobs that pass
\* every supplied filter (job ids, states, queue, user, project): the same
\* rows for every order of evaluating the filters, and the rows kept with a
\* filter are among the rows kept without it.
C16_FiltersAreConjunction ==
    RowsBuilt =>
       \E rows \in {JobRows} :
          /\ \A order \in FilterOrders : job_list = KeptBy(rows, order)
          /\ \A name \in FilterNames :
                RowSet(job_list)
                   \subseteq RowSet(KeptBy(rows,
                                           SelectSeq(<<"jobid", "state", "queue", "user", "project">>,
                                                     LAMBDA f : f # name)))

\* a call with state, user and project filter: one job is kept, another
\* one passes all filters but the project filter
C16_Witness ==
    /\ RowsBuilt
    /\ state_filter # <<>> /\ user_filter # <<>> /\ project_filter # <<>>
    /\ \E j, k \in 1..Len(jobs) :
          /\ verdicts[j] = "row"
          /\ JobRow(j) \in RowSet(job_list)
          /\ verdicts[k] = "project"
          /\ JobRow(k) \notin RowSet(job_list)
          /\ PassesInOrder(JobRow(k), <<"jobid", "state", "queue", "user">>)

\* the filtered rows after the sort stage of the call
SortedRows == SortStage(job_list, sort_by, extra_columns, reverse_order, now.year).rows

\* C17: with a limit N > 0 the printed rows are the first min(N, number of
\* rows) rows of the filtered and sorted sequence; the limit is applied
\* after the filters and the sort.
C17_LimitAfterSort ==
    (pj_pc = "done" /\ jobs # <<>> /\ limit > 0) =>
       /\ Len(job_list) = Cardinality({k \in 1..Len(jobs) : verdicts[k] = "row"})
       /\ Len(emitted) = IF limit < Len(SortedRows) THEN limit ELSE Len(SortedRows)
       /\ \A k \in 1..Len(emitted) : emitted[k] = SortedRows[k]

\* a call with limit 1 that keeps two rows and prints the one that was
\* built second, because it sorts first
C17_Witness ==
    /\ pj_pc = "done"
    /\ limit = 1
    /\ IsKnownSort(sort_by, extra_columns)
    /\ Len(job_list) = 2
    /\ emitted = <<job_list[2]>>
    /\ SortedRows = <<job_list[2], job_list[1]>>

\* the loop of lines 713-766 on a snapshot, with the filters of the call
RECURSIVE BuiltRows(_)
BuiltRows(snapshot) ==
    IF snapshot = <<>> THEN <<>>
    ELSE LET last == snapshot[Len(snapshot)]
             front == BuiltRows(SubSeq(snapshot, 1, Len(snapshot) - 1))
             score == ExecuteJobSortFormula(pj_server_data, last[2])
         IN IF Verdict(last[1], last[2], score) = "row"
            THEN Append(front, RowOf(last[1], last[2], score.v, now, extra_columns))
            ELSE front

\* building the row of the k-th job of the snapshot raises
Fails(k) ==
    \/ RowError(jobs[k][2]) # "none"
    \/ ExecuteJobSortFormula(pj_server_data, jobs[k][2]).exc # "none"

\* the snapshot without the jobs whose row building raises
WithoutFailing ==
    LET S == {k \in 1..Len(jobs) : ~Fails(k)}
    IN [x \in 1..Cardinality(S) |-> jobs[Ascending(S)[x]]]

\* C18: when building the row of a job raises, only that job is skipped: the
\* rows kept, and the rows printed, are those of the same call on the
\* snapshot without the failing jobs, in the same order.
C18_OnlyFailingJobSkipped ==
    (pj_pc \in {"done", "raised"} /\ jobs # <<>>) =>
       \E rows \in {BuiltRows(WithoutFailing)} :
          /\ job_list = rows
          /\ \A k \in 1..Len(jobs) : Fails(k) <=> verdicts[k] = "error"
          /\ pj_pc = "done" =>
                emitted = SortAndLimit(rows, sort_by, extra_columns, reverse_order,
                                       now.year, limit).rows

\* the row of the first job raises, the second job is printed
C18_Witness ==
    /\ pj_pc = "done"
    /\ Len(jobs) = 2
    /\ verdicts = <<"error", "row">>
    /\ RowError(jobs[1][2]) = "AttributeError"
    /\ Len(emitted) = 1
    /\ emitted[1].jobid = BeforeDot(jobs[2][1])

\* the call asks for no sort or for a field that is neither one of the ten
\* sort fields nor the name of an extra column of the call
Unsorted ==
    \/ sort_by = <<>>
    \/ /\ sort_by \notin {<<f>> : f \in SortFields}
       /\ \A k \in 1..Len(extra_columns) : DisplayName(extra_columns[k]) # sort_by

\* the place in the snapshot of the job of a row
SnapshotPlace(row) == CHOOSE k \in 1..Len(jobs) : BeforeDot(jobs[k][1]) = row.jobid

\* C19: with an unknown sort field, and without sort field, print_jobs does
\* not raise and prints the rows in the order of the snapshot.
C19_UnknownFieldKeepsInputOrder ==
    (pj_pc \in {"done", "raised"} /\ jobs # <<>> /\ Unsorted) =>
       /\ pj_pc = "done"
       /\ pj_raised = "none"
       /\ Len(emitted) = IF limit > 0 /\ limit < Len(job_list) THEN limit ELSE Len(job_list)
       /\ \A k \in 1..Len(emitted) : emitted[k] = job_list[k]
       /\ \A j, k \in 1..Len(emitted) :
             j < k => SnapshotPlace(emitted[j]) < SnapshotPlace(emitted[k])

\* a descending sort by the unknown field priority prints two rows in the
\* order of the snapshot, which is not the order of their job ids
C19_Witness ==
    /\ pj_pc = "done"
    /\ sort_by = <<"priority">>
    /\ reverse_order
    /\ Len(emitted) = 2
    /\ emitted[1].jobid = BeforeDot(jobs[1][1])
    /\ emitted[2].jobid = BeforeDot(jobs[2][1])
    /\ emitted[1].jobid = <<"1", "2">>
    /\ emitted[2].jobid = <<"7">>

\* C20: for every supported sort field and every list of rows that passed
\* the filters, whatever their short job ids and values, the sort stage
\* completes and the rows are printed.
C20_SortStageCompletes ==
    (pj_pc \in {"done", "raised"} /\ jobs # <<>> /\ IsKnownSort(sort_by, extra_columns)) =>
       /\ pj_pc = "done"
       /\ pj_raised = "none"
       /\ job_list # <<>> => emitted # <<>>

-----------------------------------------------------------------------------
(* Claims about the state codes *)

\* C21: in both modules get_full_state_name maps the ten codes to ten
\* distinct names (Finished for F) and every other code to Unknown, and
\* get_state_code(get_full_state_name(c)) = c for each of the ten codes.
C21_StateCodesOneToOne ==
    /\ sm_pc = "done" =>
          /\ state_code \in StateCodes => sm_code = state_code
          /\ state_code = <<"F">> => full_state_name = <<"Finished">>
          /\ state_code \notin StateCodes => full_state_name = <<"Unknown">>
    /\ \A c, d \in StateCodes :
          c # d => GetFullStateName(sm_module, c) # GetFullStateName(sm_module, d)

-----------------------------------------------------------------------------
(* Claims about the failure of the qstat command *)

\* C22: when the scheduler command ends with a non-zero return code or
\* times out, qstat_jobs raises nothing and returns an empty structured
\* result, a dictionary whose "Jobs" container is empty.
C22_CommandFailureContained ==
    (qj_pc = "done" /\ completed_process \in {"none", "returncode 1"}) =>
        /\ raised = "none"
        /\ result.t = "obj"
        /\ "'Jobs'" \in DOMAIN result.v
        /\ result.v["'Jobs'"] = JsonObj(<<>>)

-----------------------------------------------------------------------------
(* Claims about the line pass of repair_qstat_json *)

\* the line the loop processes next
CurrentLine == lines[i + 1]

\* the loop is about to process a record-start line while the previous
\* record is open with a brace depth above zero
RecordStartWhileOpen ==
    /\ pc = "loop"
    /\ i < Len(lines)
    /\ MatchJobEntry(Strip(CurrentLine))
    /\ state = INSIDE_JOB
    /\ job_brace_level > 0

\* C23: whenever the line pass processes a record-start line while the
\* previous record is open with a brace depth above zero, it emits the
\* synthesized closing line immediately before that line and the repair
\* count grows by one.
C23_OpenRecordClosedBeforeNext ==
    [][RecordStartWhileOpen =>
          /\ repaired_lines' = repaired_lines \o <<ClosingLine, CurrentLine>>
          /\ fix_count' = fix_count + 1]_vars

\* C24: the state returns to OUTSIDE_JOBS only at the line that closes the
\* "Jobs" container, so every record-start line of the container is
\* processed in state INSIDE_JOBS or INSIDE_JOB.
C24_RecordStartsSeenInside ==
    (pc = "loop" /\ i < Len(lines) /\ MatchJobEntry(Strip(CurrentLine))) =>
        state \in {INSIDE_JOBS, INSIDE_JOB}

\* the 1-based index of the last record-start line among the first k lines,
\* 0 when there is none
LastRecordStart(k) ==
    LET starts == {j \in 1..k : MatchJobEntry(Strip(lines[j]))}
    IN IF starts = {} THEN 0 ELSE CHOOSE j \in starts : \A x \in starts : x <= j

\* the braces opened and not closed by the lines a .. b
RECURSIVE BraceSum(_, _)
BraceSum(a, b) ==
    IF a > b THEN 0
    ELSE Count(lines[a], "{") - Count(lines[a], "}") + BraceSum(a + 1, b)

\* the current line closes the record that the last record-start line
\* opened: with it the braces of the record are balanced, before it they
\* were not
ClosesRecord ==
    LET r == LastRecordStart(i)
    IN r > 0 /\ BraceSum(r, i) > 0 /\ BraceSum(r, i + 1) = 0

\* C25: the line pass appends a separator to a line only when the line
\* closes the current record, a record-start line follows within the next
\* four lines with no line equal to '}' before it, and the line does not
\* end with a separator already; a line in the middle of the fields of a
\* record gets none.
C25_SeparatorOnlyAfterClosedRecord ==
    [][appended' # appended =>
          /\ ClosesRecord
          /\ NextJobFound(lines, i)
          /\ ~EndsWithComma(CurrentLine)]_vars

-----------------------------------------------------------------------------
(* Claims about values made of digits *)

\* the value is a text of decimal digits only
DigitsOnly(val) == ~val.is_none /\ val.v # <<>> /\ AllDigits(val.v)

\* C26: a value made of decimal digits only, such as "4" or "128", is
\* classified numeric and not as a timestamp, and its sort key is its
\* numeric value.
C26_DigitsAreNumeric ==
    (sk_pc = "done" /\ DigitsOnly(value)) =>
        /\ value_type = "numeric"
        /\ sort_key = NumKey(ValidFlag(reverse), Num(ParseInt(value.v).v))

-----------------------------------------------------------------------------
(* Claims about the extra columns of a row *)

\* the keys of job_dict before the extra columns are added (lines 746-757)
BaseColumnNames ==
    {"jobid", "user", "state", "queue", "nodes", "score", "project", "walltime",
     "runtime", "submitted"}

\* the job of the snapshot that the row was built from
JobOfRow(row) ==
    LET k == CHOOSE x \in 1..Len(jobs) : BeforeDot(jobs[x][1]) = row.jobid
    IN jobs[k][2]

\* the row shows under every base column the value it has without extra
\* columns
BaseValuesKept(row) == \A name \in BaseColumnNames : RowGet(row, name) = row[name]

\* the row shows under the name of every extra column the value of that
\* column
ExtraValuesKept(row) ==
    \A k \in 1..Len(extra_columns) :
        DictGet(row.extra, DisplayName(extra_columns[k]))
            = ExtractExtraColumnValue(JobOfRow(row), extra_columns[k])

\* C28: requesting extra columns changes no other column of a row: the
\* base values are those of the row without extra columns, and no extra
\* column has its value overwritten by another extra column.
C28_ExtraColumnsChangeNothingElse ==
    pj_pc = "done" =>
        \A k \in 1..Len(emitted) :
            BaseValuesKept(emitted[k]) /\ ExtraValuesKept(emitted[k])

-----------------------------------------------------------------------------
(* Claims about the runtime column *)

\* the whole seconds between the start of the job and its end, or the
\* clock when the job is running
ElapsedSeconds(job, clock) ==
    LET start_time == ParsePbsTime(Get(job, "stime", <<>>)).v
        end_time == ParsePbsTime(Get(job, "obittime", <<>>)).v
    IN IF Get(job, "job_state", <<>>) = <<"R">>
       THEN Timestamp(clock) - Timestamp(start_time)
       ELSE Timestamp(end_time) - Timestamp(start_time)

\* the text is a duration H+:MM:SS with minutes and seconds in 0..59
IsDuration(text) ==
    /\ MatchTime(text)
    /\ ParseNumber(SplitColon(text)[2]).v \in 0..59
    /\ ParseNumber(SplitColon(text)[3]).v \in 0..59

\* C29: the runtime of a row is the placeholder '--' or a duration
\* H+:MM:SS that string_time_to_seconds decodes to the elapsed whole
\* seconds of the job, so it is classified empty or time.
C29_RuntimeIsDuration ==
    pj_pc = "done" =>
        \A k \in 1..Len(emitted) :
            \/ emitted[k].runtime = Placeholder
            \/ /\ IsDuration(emitted[k].runtime)
               /\ DetectValueType(Some(emitted[k].runtime)) = "time"
               /\ StringTimeToSeconds(emitted[k].runtime).v
                     = ElapsedSeconds(JobOfRow(emitted[k]), now)

-----------------------------------------------------------------------------
(* Claims about the node summary *)

\* the sum of the counts of the first k rows of the table
RECURSIVE CountSum(_)
CountSum(k) == IF k = 0 THEN 0 ELSE table_data[k][2] + CountSum(k - 1)

\* the rows of nodes_in_state whose list holds the node
RowsOfNode(n) ==
    {k \in 1..Len(nodes_in_state) :
        \E x \in 1..Len(nodes_in_state[k][2]) : nodes_in_state[k][2][x] = n}

\* C30: in the table of print_nodes_in_state the counts of the node-state
\* rows sum to the count of the row 'Total nodes', with summarize False
\* and True, and every node is counted in exactly one row.
C30_RowsSumToTotal ==
    nd_pc = "done" =>
        /\ table_data[Len(table_data)] = <<<<"Total nodes">>, Len(pbs_nodes_data)>>
        /\ CountSum(Len(table_data) - 1) = table_data[Len(table_data)][2]
        /\ \A n \in 1..Len(pbs_nodes_data) : Cardinality(RowsOfNode(n)) = 1

-----------------------------------------------------------------------------
(* Specifications *)

\* repair_qstat_json called on a text
InitRepair == RepairInit /\ QstatIdle /\ ExpandIdle /\ ScoreIdle /\ PrintIdle /\ SortKeyIdle /\ StateMapIdle /\ NodesIdle

NextRepair ==
    \/ RepairSplit /\ UNCHANGED exceptRepair
    \/ RepairLine /\ UNCHANGED exceptRepair
    \/ RepairFinish /\ UNCHANGED exceptRepair

SpecRepair == InitRepair /\ [][NextRepair]_vars

\* qstat_jobs called once
InitQstatJobs == QstatInit /\ RepairIdle /\ ExpandIdle /\ ScoreIdle /\ PrintIdle /\ SortKeyIdle /\ StateMapIdle /\ NodesIdle

NextQstatJobs ==
    \/ QJ_Timeout /\ UNCHANGED exceptQstat
    \/ QJ_Failed /\ UNCHANGED exceptQstat
    \/ QJ_Output /\ UNCHANGED exceptQstat
    \/ QJ_Parse /\ UNCHANGED exceptQstat
    \/ QJ_Repair /\ UNCHANGED exceptQstat
    \/ QJ_Reparse /\ UNCHANGED exceptQstat

SpecQstatJobs == InitQstatJobs /\ [][NextQstatJobs]_vars

\* expand_routed_queues called on a root name and a routing map
InitExpand == ExpandInit /\ RepairIdle /\ QstatIdle /\ ScoreIdle /\ PrintIdle /\ SortKeyIdle /\ StateMapIdle /\ NodesIdle

NextExpand ==
    \/ EX_Start /\ UNCHANGED exceptExpand
    \/ EX_Iterate /\ UNCHANGED exceptExpand
    \/ EX_Return /\ UNCHANGED exceptExpand

SpecExpand == InitExpand /\ [][NextExpand]_vars

\* the call runs on: the interpreter takes the next step of a function that has one
SpecExpandFair == SpecExpand /\ WF_vars(NextExpand)

\* execute_job_sort_formula called on the server's answer and a job
InitScore == ScoreInit /\ RepairIdle /\ QstatIdle /\ ExpandIdle /\ PrintIdle /\ SortKeyIdle /\ StateMapIdle /\ NodesIdle

NextScore ==
    \/ SC_Formula /\ UNCHANGED exceptScore
    \/ SC_Extract /\ UNCHANGED exceptScore
    \/ SC_Eval /\ UNCHANGED exceptScore

SpecScore == InitScore /\ [][NextScore]_vars

\* print_jobs called on a snapshot with filters
InitPrint == PrintInit /\ RepairIdle /\ QstatIdle /\ ExpandIdle /\ ScoreIdle /\ SortKeyIdle /\ StateMapIdle /\ NodesIdle

NextPrint ==
    \/ PJ_Prepare /\ UNCHANGED exceptPrint
    \/ PJ_Row /\ UNCHANGED exceptPrint
    \/ PJ_Emit /\ UNCHANGED exceptPrint

SpecPrint == InitPrint /\ [][NextPrint]_vars

\* print_jobs called on a snapshot with a sort field
InitPrintSort == PrintSortInit /\ RepairIdle /\ QstatIdle /\ ExpandIdle /\ ScoreIdle /\ SortKeyIdle /\ StateMapIdle /\ NodesIdle

NextPrintSort ==
    \/ PJ_Prepare /\ UNCHANGED exceptPrint
    \/ PJ_Row /\ UNCHANGED exceptPrint
    \/ PJ_Emit /\ UNCHANGED exceptPrint

SpecPrintSort == InitPrintSort /\ [][NextPrintSort]_vars

\* print_jobs called on a snapshot with extra columns
InitPrintColumns == PrintColumnsInit /\ RepairIdle /\ QstatIdle /\ ExpandIdle /\ ScoreIdle /\ SortKeyIdle /\ StateMapIdle /\ NodesIdle

NextPrintColumns ==
    \/ PJ_Prepare /\ UNCHANGED exceptPrint
    \/ PJ_Row /\ UNCHANGED exceptPrint
    \/ PJ_Emit /\ UNCHANGED exceptPrint

SpecPrintColumns == InitPrintColumns /\ [][NextPrintColumns]_vars

\* convert_value_for_sorting called on a value
InitSortKey == SortKeyInit /\ RepairIdle /\ QstatIdle /\ ExpandIdle /\ ScoreIdle /\ PrintIdle /\ StateMapIdle /\ NodesIdle

NextSortKey ==
    \/ SK_Detect /\ UNCHANGED exceptSortKey
    \/ SK_Convert /\ UNCHANGED exceptSortKey

SpecSortKey == InitSortKey /\ [][NextSortKey]_vars

\* get_full_state_name and get_state_code of a module called on a code
InitStateMap == StateMapInit /\ RepairIdle /\ QstatIdle /\ ExpandIdle /\ ScoreIdle /\ PrintIdle /\ SortKeyIdle /\ NodesIdle

NextStateMap ==
    \/ SM_FullName /\ UNCHANGED exceptStateMap
    \/ SM_Code /\ UNCHANGED exceptStateMap

SpecStateMap == InitStateMap /\ [][NextStateMap]_vars

\* print_nodes_in_state called on a node snapshot
InitNodes == NodesInit /\ RepairIdle /\ QstatIdle /\ ExpandIdle /\ ScoreIdle /\ PrintIdle /\ SortKeyIdle /\ StateMapIdle

NextNodes ==
    \/ ND_NodesInState /\ UNCHANGED exceptNodes
    \/ ND_Summarize /\ UNCHANGED exceptNodes
    \/ ND_Table /\ UNCHANGED exceptNodes

SpecNodes == InitNodes /\ [][NextNodes]_vars

=============================================================================
